---- MODULE Spec2Model ----
(***************************************************************************)
(* A model of the local monitor of Pokebot: the per-domain HTTP client     *)
(* (services/local-monitor/src/advanced-http-client.ts), the store locator *)
(* and the cycle orchestrator LocalMonitorService (store-locator.ts).      *)
(*                                                                         *)
(* The specifications share the variables:                                 *)
(*   SpecHttp       get() calls on one AdvancedHttpClient, with a clock    *)
(*   SpecLocator    findBestBuyStores / findTargetStores / findAllStores   *)
(*   SpecParse      the parse of an accepted store response                *)
(*   SpecInventory  checkStoreInventory of the two monitors                *)
(*   SpecBatch      checkMultipleStores of the two monitors                *)
(*   SpecNotifier   sendStockAlert                                         *)
(*   SpecLogger     recordProductFind of the FileLogger                    *)
(*   SpecSummary    generateSummary of the FileLogger                      *)
(*   SpecSession    initializeSession of the HTTP client                   *)
(*   SpecStore      the mapping of a raw store record to a Store           *)
(*   SpecSearch     searchProducts of the BestBuyMonitor                   *)
(*   Spec           start(), stop(), timer ticks and check cycles          *)
(* Each leaves the variables of the other parts as they start.             *)
(* Time is counted in units of 500 ms, and kept as ages and countdowns.     *)
(***************************************************************************)
EXTENDS Integers, Sequences, FiniteSets, Bags, TLC

VARIABLES
    \* ---- AdvancedHttpClient
    config,           \* this.config after the constructor's merge
    sinceLastRequest, \* Date.now() - this.lastRequestTime, saturating at AgeCap
    clients,          \* keys of this.clients / this.cookieJars
    calls,            \* the get() invocations and where each stands
    sinceSend,        \* per hostname: time since the latest HTTP send to it started,
                      \* saturating at AgeCap
    \* ---- LocalMonitorService
    enabled,          \* this.config.retailers[r].enabled
    isRunning,        \* this.isRunning
    intervalId,       \* this.intervalId (NoTimer: null)
    timers,           \* the setInterval timers that are scheduled
    cycles,           \* the performCheck executions in progress
    statusFile,       \* data/status.json
    afterStop,        \* stop() has returned and start() has not been called since
    fx,               \* what the latest step of the service did
    \* ---- StoreLocator
    lookups,          \* per retailer: where its store lookup stands
    discovery,        \* the findAllStores call and what it returned
    parseCall,        \* an accepted response and the stores parsed from it
    \* ---- BestBuyMonitor, TargetMonitor
    inventory,        \* checkStoreInventory: the products found and what becomes of them
    batch,            \* checkMultipleStores: the loop over the stores
    \* ---- Notifier
    storeInfos,       \* this.stores, as written to data/stores.json
    alert,            \* the latest sendStockAlert: its batch, the finds it recorded
    \* ---- FileLogger
    finds,            \* data/products-found.json, data/products-<day>.json, the day
    summary,          \* what generateSummary returned, while the files stay as they are
    \* ---- calls on their own
    session,          \* an initializeSession call
    mapping,          \* a raw store record and the Store made of it
    search,           \* a searchProducts call of the BestBuyMonitor
    check,            \* a performCheck and the results it gathers
    wire,             \* the requests a monitor sends through axios itself
    \* ---- Scout
    scout             \* the Scout: its SKU file, its timers

httpVars == <<config, sinceLastRequest, clients, calls, sinceSend>>
orchVars == <<enabled, isRunning, intervalId, timers, cycles, statusFile, afterStop, fx>>

locVars == <<lookups, discovery>>
monVars == <<parseCall, inventory, batch, storeInfos, alert>>

logVars == <<finds, summary, session, mapping, search>>

auxVars == <<check, wire, scout>>

vars == <<httpVars, orchVars, locVars, monVars, logVars, auxVars>>

-----------------------------------------------------------------------------
(* Bounds of the model *)

MaxRetriesCfg == 3   \* configured maxRetries range over 0..MaxRetriesCfg
MaxCycles == 2       \* performCheck executions in progress at the same time
MaxTimers == 2       \* setInterval timers scheduled at the same time
MaxElems == 2        \* elements of a store array in a response body
MaxProducts == 2     \* matching products the searches of one store check come upon
MaxStores == 2       \* stores handed to checkMultipleStores
MaxTerms == 2        \* search terms handed to checkMultipleStores
MaxChecks == 2       \* checks of one store the Notifier counts
MaxFinds == 102      \* recordProductFind calls
MaxMidnights == 1    \* changes of the date while finds are recorded
MaxRecent == 11      \* finds recorded between summaries
MaxZips == 2         \* ZIP codes in config.zip_codes
MaxItems == 2        \* items in a SKU file of the scout
MaxScoutTimers == 3  \* setInterval timers of the scout scheduled at the same time
MaxJitters == 1      \* jittered checkStock calls of the scout pending at the same time
MaxRestarts == 1     \* restarts of the scout's monitoring pending at the same time

(* Program constants, times in units of 500 ms *)

DefaultDelay == 4        \* delayBetweenRequests: 2000
LocatorDelay == 6        \* delayBetweenRequests: 3000
DefaultMaxRetries == 3
BackoffBase == 2         \* 1000 ms, the factor of Math.pow(2, attempt)
RollingCap == 100        \* finds.slice(0, 100)

-----------------------------------------------------------------------------
(* AdvancedHttpClient *)

Hosts == {"www.bestbuy.com", "www.target.com"}

\* The callers that use one client at the same time: under the Promise.all of
\* findAllStores these are findBestBuyStores and findTargetStores. Each makes one
\* get() call after the other.
Callers == {1, 2}

\* delayBetweenRequests values: 0 (which the client reads as the default 2000)
\* and the StoreLocator's 3000.
DelayChoices == {0, LocatorDelay}

\* Ages saturate here: no spacing the client compares against is longer.
AgeCap == LocatorDelay

Statuses == {200, 404, 500}

NoResponse == [kind |-> "none", status |-> 0]
NetworkError == [kind |-> "network", status |-> 0]
\* What the server side can answer to one attempt.
Outcomes == [kind : {"response"}, status : Statuses] \cup {NetworkError}

IdleCall == [pc |-> "idle", host |-> "", attempt |-> 0, timer |-> 0,
             lastError |-> NoResponse, response |-> NoResponse]

\* axios' own validateStatus, in force when the option is left out
validateStatusDefault(code) == code >= 200 /\ code < 300

\* validateStatus of the axios instance
validateStatus(code) == code < 500

\* this.config.delayBetweenRequests || 2000
minDelay == IF config.delayBetweenRequests = 0 THEN DefaultDelay
            ELSE config.delayBetweenRequests

\* this.config.maxRetries || 3
maxAttempts == IF config.maxRetries = 0 THEN DefaultMaxRetries ELSE config.maxRetries

RECURSIVE Pow2(_)
Pow2(n) == IF n = 0 THEN 1 ELSE 2 * Pow2(n - 1)

\* a backoff that grows by one second with every attempt
BackoffsLinear(attempt) == {attempt * BackoffBase + j : j \in {0, 1}}

\* Math.pow(2, attempt) * 1000 + Math.random() * 1000, the jitter below 1000 ms
Backoffs(attempt) == {Pow2(attempt) * BackoffBase + j : j \in {0, 1}}

\* client.get(url, ...): an HTTP send to host starts now
Send(host) == sinceSend' = [sinceSend EXCEPT ![host] = 0]

\* getOrCreateClient
getOrCreateClient(domain) == clients' = clients \cup {domain}

\* the configuration the StoreLocator constructs its client with
LocatorConfig == [delayBetweenRequests |-> LocatorDelay, maxRetries |-> DefaultMaxRetries]

Configs == [delayBetweenRequests : DelayChoices, maxRetries : 0..MaxRetriesCfg]

InitHttpClient(configs) ==
    /\ config \in configs
    /\ sinceLastRequest = AgeCap   \* lastRequestTime = 0, long ago
    /\ clients = {}
    /\ calls = [c \in Callers |-> IdleCall]
    /\ sinceSend = [h \in Hosts |-> AgeCap]

\* get(url) is called: addDelay() either returns at once, and the first attempt
\* is sent, or sleeps for the remainder of the spacing.
GetCall(c, host) ==
    /\ calls[c].pc \in {"idle", "returned", "thrown"}
    /\ LET timeSinceLastRequest == sinceLastRequest IN
       IF timeSinceLastRequest < minDelay
       THEN /\ calls' = [calls EXCEPT ![c] = [IdleCall EXCEPT !.pc = "delay", !.host = host,
                                      !.timer = minDelay - timeSinceLastRequest]]
            /\ UNCHANGED <<sinceLastRequest, clients, sinceSend, auxVars>>
       ELSE /\ sinceLastRequest' = 0
            /\ getOrCreateClient(host)
            /\ Send(host)
            /\ calls' = [calls EXCEPT ![c] = [IdleCall EXCEPT !.pc = "inflight",
                                                 !.host = host, !.attempt = 1]]
    /\ UNCHANGED <<config, orchVars, locVars, monVars, logVars, auxVars>>

\* the setTimeout of addDelay fires: lastRequestTime is set, the first attempt is sent
AddDelayWake(c) ==
    /\ calls[c].pc = "delay"
    /\ calls[c].timer = 0
    /\ sinceLastRequest' = 0
    /\ getOrCreateClient(calls[c].host)
    /\ Send(calls[c].host)
    /\ calls' = [calls EXCEPT ![c] = [@ EXCEPT !.pc = "inflight", !.attempt = 1]]
    /\ UNCHANGED <<config, orchVars, locVars, monVars, logVars, auxVars>>

\* the attempt in flight ends: a response axios resolves with is returned, anything
\* else is caught, and either a backoff starts or the loop ends and get() throws
Respond(c, o) ==
    /\ calls[c].pc = "inflight"
    /\ IF o.kind = "response" /\ validateStatus(o.status)
       THEN calls' = [calls EXCEPT ![c] = [@ EXCEPT !.pc = "returned", !.response = o,
                                                   !.lastError = NoResponse]]
       ELSE IF calls[c].attempt < maxAttempts
               THEN \E d \in Backoffs(calls[c].attempt) :
                      calls' = [calls EXCEPT ![c] = [@ EXCEPT !.pc = "backoff",
                                             !.lastError = o, !.timer = d]]
               ELSE calls' = [calls EXCEPT ![c] = [@ EXCEPT !.pc = "thrown",
                                                   !.lastError = o]]
    /\ UNCHANGED <<config, sinceLastRequest, clients, sinceSend, orchVars, locVars, monVars, logVars, auxVars>>

\* the backoff's setTimeout fires: the next attempt is sent
BackoffWake(c) ==
    /\ calls[c].pc = "backoff"
    /\ calls[c].timer = 0
    /\ Send(calls[c].host)
    /\ calls' = [calls EXCEPT ![c] = [@ EXCEPT !.pc = "inflight", !.attempt = @ + 1]]
    /\ UNCHANGED <<config, sinceLastRequest, clients, orchVars, locVars, monVars, logVars, auxVars>>

Age(a) == IF a < AgeCap THEN a + 1 ELSE a

\* 500 ms pass: every age grows, every pending setTimeout comes closer
Tick ==
    /\ \A c \in Callers : calls[c].pc \in {"delay", "backoff"} => calls[c].timer > 0
    /\ sinceLastRequest' = Age(sinceLastRequest)
    /\ sinceSend' = [h \in Hosts |-> Age(sinceSend[h])]
    /\ calls' = [c \in Callers |->
                   IF calls[c].timer > 0 THEN [calls[c] EXCEPT !.timer = @ - 1]
                   ELSE calls[c]]
    /\ UNCHANGED <<config, clients, orchVars, locVars, monVars, logVars, auxVars>>

-----------------------------------------------------------------------------
(* StoreLocator *)

Retailers == {"bestbuy", "target"}

Undefined == -1   \* the value of a property that is absent

\* an element of a store array: an object with its id and distance, a primitive
\* (every property read gives undefined) or null (a property read throws)
Elem(kind, id, distance) == [kind |-> kind, id |-> id, distance |-> distance]
RawElems == {Elem("object", 1, 2), Elem("primitive", Undefined, Undefined),
             Elem("null", Undefined, Undefined)}
ElemSeqs == UNION {[1..n -> RawElems] : n \in 0..MaxElems}

\* the value found where a store array is expected: an array, a string (it iterates
\* as its characters) or a value that cannot be iterated (a number, a plain object)
ArrayPayloads == [kind : {"array"}, elems : ElemSeqs]
StringPayload == [kind |-> "string", elems |-> <<Elem("primitive", Undefined, Undefined)>>]
ScalarPayload == [kind |-> "scalar", elems |-> <<>>]
Payloads == ArrayPayloads \cup {StringPayload, ScalarPayload}

\* response.data: falsy ("empty"), an array, an object with .stores, .data.stores or
\* .locations, a page of HTML (payload: what its script data parses to), or another
\* object
EmptyBody == [shape |-> "empty", payload |-> ScalarPayload]
OtherBody == [shape |-> "other", payload |-> ScalarPayload]
Bodies == {EmptyBody, OtherBody}
          \cup [shape : {"array", "html"}, payload : ArrayPayloads]
          \cup {[shape |-> "html", payload |-> ScalarPayload]}
          \cup [shape : {"stores", "dataStores", "locations"}, payload : Payloads]

\* the bodies that come with a status: any with 200, none or an error object otherwise
BodiesOf(o) == IF o.kind = "response" /\ o.status = 200 THEN Bodies
               ELSE IF o.kind = "response" THEN {EmptyBody, OtherBody}
               ELSE {EmptyBody}

\* the candidate endpoints of a lookup; the first Best Buy one is tcfb/model.json
NumEndpoints(r) == IF r = "bestbuy" THEN 4 ELSE 5
TcfbEndpoint == 1
Homepage == 0     \* the request of initializeSession, before the candidates

Store(e, r) == [id |-> e.id, distance |-> e.distance, retailer |-> r]

\* for (const storeData of storeArray) stores.push({...}): the stores pushed, and
\* whether the loop threw (not iterable, or a property of null was read)
pushStores(storeArray, r) ==
    LET elems == storeArray.elems
        nulls == {i \in 1..Len(elems) : elems[i].kind = "null"}
        k == IF nulls = {} THEN Len(elems)
             ELSE (CHOOSE i \in nulls : \A j \in nulls : i <= j) - 1
    IN [threw |-> storeArray.kind = "scalar" \/ nulls # {},
        stores |-> [i \in 1..k |-> Store(elems[i], r)]]

parseBestBuyStoreArray(storeArray) == pushStores(storeArray, "bestbuy")
parseTargetStoreArray(storeArray) == pushStores(storeArray, "target")

NoStores == [threw |-> FALSE, stores |-> <<>>]
\* a parser whose try/catch keeps what was pushed before the exception
Swallowed(parsed) == [parsed EXCEPT !.threw = FALSE]

\* the first path of data that holds an array is parsed
parseBestBuyTcfbResponse(data) ==
    IF data.shape \in {"stores", "locations"} /\ data.payload.kind = "array"
    THEN Swallowed(parseBestBuyStoreArray(data.payload))
    ELSE NoStores

parseBestBuyHtmlResponse(data) ==
    IF data.payload.kind = "array" THEN Swallowed(parseBestBuyStoreArray(data.payload))
    ELSE NoStores

parseTargetHtmlResponse(data) ==
    IF data.payload.kind = "array" THEN Swallowed(parseTargetStoreArray(data.payload))
    ELSE NoStores

\* findBestBuyStores, the parse of the accepted response
BestBuyParse(idx, data) ==
    IF idx = TcfbEndpoint THEN parseBestBuyTcfbResponse(data)
    ELSE IF data.shape = "array" THEN parseBestBuyStoreArray(data.payload)
    ELSE IF data.shape = "stores" THEN parseBestBuyStoreArray(data.payload)
    ELSE IF data.shape = "html" THEN parseBestBuyHtmlResponse(data)
    ELSE NoStores

\* findTargetStores, the parse of the accepted response
TargetParse(data) ==
    IF data.shape = "dataStores" THEN parseTargetStoreArray(data.payload)
    ELSE IF data.shape = "stores" THEN parseTargetStoreArray(data.payload)
    ELSE IF data.shape = "array" THEN parseTargetStoreArray(data.payload)
    ELSE IF data.shape = "html" THEN parseTargetHtmlResponse(data)
    ELSE IF data.shape = "locations" THEN parseTargetStoreArray(data.payload)
    ELSE NoStores

Parse(r, idx, data) == IF r = "bestbuy" THEN BestBuyParse(idx, data) ELSE TargetParse(data)

\* the test of a candidate's response, whatever the status
AcceptsAnyStatus(code, data) == data.shape # "empty"

\* response.status === 200 && response.data
Accepts(code, data) == code = 200 /\ data.shape # "empty"

\* the body is an array of store objects, under whatever key
WellFormed(data) ==
    /\ data.payload.kind = "array"
    /\ \A i \in 1..Len(data.payload.elems) : data.payload.elems[i].kind = "object"

\* a.distance || 0
DistanceOrZero(s) == IF s.distance = Undefined THEN 0 ELSE s.distance

\* allStores.sort((a, b) => (a.distance || 0) - (b.distance || 0)), a stable sort
RECURSIVE InsertByDistance(_, _)
InsertByDistance(sorted, s) ==
    IF sorted = <<>> THEN <<s>>
    ELSE IF DistanceOrZero(sorted[Len(sorted)]) <= DistanceOrZero(s)
    THEN Append(sorted, s)
    ELSE Append(InsertByDistance(SubSeq(sorted, 1, Len(sorted) - 1), s), sorted[Len(sorted)])

Unsorted(stores) == stores

RECURSIVE SortByDistance(_)
SortByDistance(stores) ==
    IF stores = <<>> THEN <<>>
    ELSE InsertByDistance(SortByDistance(SubSeq(stores, 1, Len(stores) - 1)),
                          stores[Len(stores)])

findWalgreensStores == <<>>

\* let response = null
NullResponse == [status |-> 0, empty |-> TRUE]

IdleLookup == [pc |-> "idle", idx |-> 0, attempt |-> 0, log |-> <<>>,
               response |-> NullResponse, accepted |-> 0, wellFormed |-> FALSE,
               stores |-> <<>>]

\* find<Retailer>Stores up to its first await: initializeSession has called get()
NewLookup == [IdleLookup EXCEPT !.pc = "session", !.attempt = 1, !.log = <<Homepage>>]

InitLocator ==
    /\ lookups = [r \in Retailers |-> IdleLookup]
    /\ discovery = [pc |-> "idle", allStores |-> <<>>]

\* findAllStores(zipCode, radiusMiles) is called: Promise.all starts every lookup,
\* whatever the configuration enables
findAllStores ==
    /\ discovery.pc # "pending"
    /\ lookups' = [r \in Retailers |-> NewLookup]
    /\ discovery' = [pc |-> "pending", allStores |-> <<>>]
    /\ UNCHANGED <<httpVars, orchVars, monVars, logVars, auxVars>>

\* the loop over the endpoints goes on to the candidate after idx, or ends with none
\* accepted: 'All ... endpoints failed' is thrown and caught, [] is returned
NextCandidate(r, L) ==
    IF L.idx < NumEndpoints(r)
    THEN lookups' = [lookups EXCEPT ![r] = [L EXCEPT !.pc = "candidate", !.idx = L.idx + 1,
                                               !.attempt = 1,
                                               !.log = Append(L.log, L.idx + 1)]]
    ELSE lookups' = [lookups EXCEPT ![r] = [L EXCEPT !.pc = "done", !.stores = <<>>]]

\* what the lookup returns for a parse: the catch around the whole lookup turns an
\* exception into []
Returned(parsed) == IF parsed.threw THEN <<>> ELSE parsed.stores

\* get() returns a response to the lookup of r
GetReturns(r, code, data) ==
    LET L == [lookups[r] EXCEPT !.response = [status |-> code,
                                              empty |-> data.shape = "empty"]]
        parsed == Parse(r, L.idx, data)
    IN IF lookups[r].pc = "session" THEN NextCandidate(r, lookups[r])
       ELSE IF Accepts(code, data)
       THEN lookups' = [lookups EXCEPT ![r] =
                          [L EXCEPT !.pc = "done", !.accepted = L.idx,
                                    !.wellFormed = WellFormed(data),
                                    !.stores = Returned(parsed)]]
       ELSE NextCandidate(r, L)

\* get() throws: initializeSession and the loop over the endpoints both catch it
GetThrows(r) == NextCandidate(r, lookups[r])

\* an attempt of the get() call the lookup of r waits for ends with outcome o, data
\* being the body of a response. The waits of get() are left to SpecHttp.
GetAttempt(r, o, data) ==
    /\ lookups[r].pc \in {"session", "candidate"}
    /\ data \in BodiesOf(o)
    /\ IF o.kind = "response" /\ validateStatus(o.status)
       THEN GetReturns(r, o.status, data)
       ELSE IF lookups[r].attempt < maxAttempts
       THEN lookups' = [lookups EXCEPT ![r] = [@ EXCEPT !.attempt = @ + 1]]
       ELSE GetThrows(r)
    /\ UNCHANGED <<discovery, httpVars, orchVars, monVars, logVars, auxVars>>

\* Promise.all resolves: the lists are concatenated and sorted by distance
findAllStoresReturn ==
    /\ discovery.pc = "pending"
    /\ \A r \in Retailers : lookups[r].pc = "done"
    /\ discovery' = [pc |-> "returned",
                     allStores |-> SortByDistance(lookups["bestbuy"].stores
                                                  \o lookups["target"].stores
                                                  \o findWalgreensStores)]
    /\ UNCHANGED <<lookups, httpVars, orchVars, monVars, logVars, auxVars>>

-----------------------------------------------------------------------------
(* StoreLocator: the parse of an accepted response, on its own *)

\* store records that differ, next to the elements that are no records
ParseElems == RawElems \cup {Elem("object", 2, 1)}
ParseElemSeqs == UNION {[1..n -> ParseElems] : n \in 0..MaxElems}
ParseArrays == [kind : {"array"}, elems : ParseElemSeqs]

\* the bodies a candidate can be accepted with: response.data is truthy
AcceptedBodies == {OtherBody}
                  \cup [shape : {"array", "html"}, payload : ParseArrays]
                  \cup {[shape |-> "html", payload |-> ScalarPayload]}
                  \cup [shape : {"stores", "dataStores", "locations"},
                        payload : ParseArrays \cup {StringPayload, ScalarPayload}]

IdleParse == [pc |-> "idle", r |-> "bestbuy", idx |-> TcfbEndpoint, data |-> OtherBody,
              stores |-> <<>>]

\* candidate idx of the lookup of r has answered 200 with body data
AcceptedCalls == {[pc |-> "accepted", r |-> r, idx |-> idx, data |-> data, stores |-> <<>>] :
                    r \in Retailers, idx \in 1..5, data \in AcceptedBodies}
                 \ {c \in [pc : {"accepted"}, r : Retailers, idx : 1..5,
                            data : AcceptedBodies, stores : {<<>>}] :
                       c.idx > NumEndpoints(c.r)}

\* the rest of find<Retailer>Stores after the loop: parse, log, return
ParseAccepted ==
    /\ parseCall.pc = "accepted"
    /\ parseCall' = [parseCall EXCEPT
                       !.pc = "returned",
                       !.stores = Returned(Parse(parseCall.r, parseCall.idx, parseCall.data))]
    /\ UNCHANGED <<logVars, httpVars, orchVars, locVars, inventory, batch, storeInfos, alert, auxVars>>

-----------------------------------------------------------------------------
(* BestBuyMonitor and TargetMonitor: checkStoreInventory *)

\* product.sku / product.tcin of a product in a search response
Skus == {1, 2, Undefined}

\* a matching product of Target's search response, with its fulfillment_v2 statuses
TargetProducts == [sku : Skus,
                   store_pick_up : {"AVAILABLE", "LIMITED_STOCK", "UNAVAILABLE"},
                   ship_to_store : {"AVAILABLE", "UNAVAILABLE"},
                   shipping : {"AVAILABLE", "UNAVAILABLE"}]

\* a matching product of Best Buy: of the API response, with the status of
\* inStoreAvailability[storeId] ("" when absent) and of onlineAvailability, or of the
\* scraped page, with its availability property ("" when absent or empty)
NonString == "<not a string>"
BestBuyProducts ==
    [sku : Skus, source : {"api"}, inStore : {"Available", "LimitedStock", "Unavailable", ""},
     online : {"Available", "Unavailable"}, availability : {""}]
    \cup [sku : Skus, source : {"scrape"}, inStore : {""}, online : {"Unavailable"},
          availability : {"In Stock", NonString, ""}]

RawProducts(r) == IF r = "bestbuy" THEN BestBuyProducts ELSE TargetProducts

determineAvailabilityShippingFirst(product) ==
    IF product.store_pick_up = "AVAILABLE" THEN "Available for store pickup"
    ELSE IF product.store_pick_up = "LIMITED_STOCK" THEN "Limited stock - store pickup"
    ELSE IF product.shipping = "AVAILABLE" THEN "Available for shipping"
    ELSE IF product.ship_to_store = "AVAILABLE" THEN "Available - ship to store"
    ELSE "Out of stock"

\* TargetMonitor.determineAvailability
determineAvailabilityTarget(product) ==
    IF product.store_pick_up = "AVAILABLE" THEN "Available for store pickup"
    ELSE IF product.store_pick_up = "LIMITED_STOCK" THEN "Limited stock - store pickup"
    ELSE IF product.ship_to_store = "AVAILABLE" THEN "Available - ship to store"
    ELSE IF product.shipping = "AVAILABLE" THEN "Available for shipping"
    ELSE "Out of stock"

\* BestBuyMonitor.determineAvailability
determineAvailabilityBestBuy(product) ==
    IF product.inStore = "Available" THEN "Available for pickup today"
    ELSE IF product.inStore = "LimitedStock" THEN "Limited stock available"
    ELSE IF product.online = "Available" THEN "Available online"
    ELSE "Out of stock"

\* the ProductMatch searchProducts / scrapeSearchResults pushes for a product
ProductMatch(r, product) ==
    [sku |-> product.sku,
     availability |-> IF r = "target" THEN determineAvailabilityTarget(product)
                      ELSE IF product.source = "api" THEN determineAvailabilityBestBuy(product)
                      ELSE IF product.availability = "" THEN "Unknown"
                      ELSE product.availability]

\* which of 'available', 'in stock', 'pickup' availability.toLowerCase() includes
Includes(availability) ==
    CASE availability \in {"Available for store pickup", "Available for pickup today"}
           -> {"available", "pickup"}
      [] availability = "Limited stock - store pickup" -> {"pickup"}
      [] availability \in {"Available - ship to store", "Available for shipping",
                           "Limited stock available", "Available online"} -> {"available"}
      [] availability = "In Stock" -> {"in stock"}
      [] OTHER -> {}

\* self.findIndex(p => p.sku === sku)
findIndex(self, sku) ==
    CHOOSE i \in 1..Len(self) : self[i].sku = sku /\ \A j \in 1..(i - 1) : self[j].sku # sku

\* products.filter((product, index, self) => index === self.findIndex(...))
RECURSIVE filterFirst(_, _)
filterFirst(self, n) ==
    IF n = 0 THEN <<>>
    ELSE IF n = findIndex(self, self[n].sku) THEN Append(filterFirst(self, n - 1), self[n])
    ELSE filterFirst(self, n - 1)

dedupKeepLast(products) ==
    LET last(i) == \A j \in (i + 1)..Len(products) : products[j].sku # products[i].sku
        F[n \in 0..Len(products)] ==
            IF n = 0 THEN <<>>
            ELSE IF last(n) THEN Append(F[n - 1], products[n]) ELSE F[n - 1]
    IN F[Len(products)]

\* a deduplication that never takes two products without a sku for duplicates
dedupKeepSkuless(products) ==
    LET first(i) == \/ products[i].sku = Undefined
                    \/ \A j \in 1..(i - 1) : products[j].sku # products[i].sku
        F[n \in 0..Len(products)] ==
            IF n = 0 THEN <<>>
            ELSE IF first(n) THEN Append(F[n - 1], products[n]) ELSE F[n - 1]
    IN F[Len(products)]

dedup(products) == filterFirst(products, Len(products))

StockWordsInStockOnly(r) == {"in stock"}

\* the substrings the some() of each monitor tests for
StockWords(r) == IF r = "bestbuy" THEN {"available", "pickup"} ELSE {"available", "in stock"}

\* products.some(p => p.availability.toLowerCase().includes(...)): true at the first
\* product that matches; a product before it whose availability has no toLowerCase
\* makes some() throw, and the catch returns the result with hasStock still false
someInStock(r, products) ==
    \E i \in 1..Len(products) :
        /\ Includes(products[i].availability) \cap StockWords(r) # {}
        /\ \A j \in 1..(i - 1) : products[j].availability # NonString

IdleInventory == [pc |-> "idle", retailer |-> "bestbuy", found |-> <<>>, merged |-> <<>>,
                  products |-> <<>>, hasStock |-> FALSE]

\* checkStoreInventory is called; found are the matching products the searches of its
\* search terms will come upon, in order
Inventories ==
    UNION {[pc : {"searching"}, retailer : {r},
            found : UNION {[1..n -> RawProducts(r)] : n \in 0..MaxProducts},
            merged : {<<>>}, products : {<<>>}, hasStock : {FALSE}] : r \in Retailers}

\* the loop over the search terms has pushed the products of every search
searchProducts ==
    /\ inventory.pc = "searching"
    /\ inventory' = [inventory EXCEPT
                       !.pc = "merged",
                       !.merged = [i \in 1..Len(inventory.found) |->
                                     ProductMatch(inventory.retailer, inventory.found[i])]]
    /\ UNCHANGED <<logVars, httpVars, orchVars, locVars, parseCall, batch, storeInfos, alert, auxVars>>

\* the rest of checkStoreInventory: the duplicates go, hasStock is set, result returned
checkStoreInventory ==
    /\ inventory.pc = "merged"
    /\ LET products == dedup(inventory.merged)
       IN inventory' = [inventory EXCEPT
                          !.pc = "returned",
                          !.products = products,
                          !.hasStock = someInStock(inventory.retailer, products)]
    /\ UNCHANGED <<logVars, httpVars, orchVars, locVars, parseCall, batch, storeInfos, alert, auxVars>>

-----------------------------------------------------------------------------
(* BestBuyMonitor and TargetMonitor: checkMultipleStores *)

\* setTimeout(resolve, 2000 + Math.random() * 3000) for Best Buy, 3000 +
\* Math.random() * 2000 for Target: the shortest and a longest wait, in 500 ms units
InterStoreDelays(r) == IF r = "bestbuy" THEN {4, 9} ELSE {6, 9}

IdleBatch == [pc |-> "idle", retailer |-> "bestbuy", n |-> 0, terms |-> 0, i |-> 0, t |-> 0,
              failed |-> 0, found |-> FALSE, results |-> <<>>, timer |-> 0,
              delays |-> <<>>, log |-> <<>>]

\* for (let i = 0; ...) reaches store i (counted from 1) and calls its
\* checkStoreInventory, or the loop ends and the results are returned
loopTo(b, i) ==
    IF i <= b.n
    THEN [b EXCEPT !.pc = "check", !.i = i, !.t = 0, !.failed = 0, !.found = FALSE,
                   !.log = Append(b.log, <<"check", i>>)]
    ELSE [b EXCEPT !.pc = "returned"]

\* checkMultipleStores(stores, searchTerms) of the monitor of r, with n stores (store
\* i is stores[i - 1]) and so many search terms
checkMultipleStores(r, n, terms) ==
    /\ batch.pc \in {"idle", "returned"}
    /\ batch' = loopTo([IdleBatch EXCEPT !.retailer = r, !.n = n, !.terms = terms], 1)
    /\ UNCHANGED <<logVars, httpVars, orchVars, locVars, parseCall, inventory, storeInfos, alert, auxVars>>

\* result.products.push(...products)
pushProducts(found, outcome) == found \/ outcome = "some"

\* searchProducts of the next search term returns: with products, with none, or with
\* [] from its catch after a failure
searchReturns(outcome) ==
    /\ batch.pc = "check"
    /\ batch.t < batch.terms
    /\ batch' = [batch EXCEPT !.t = @ + 1,
                              !.failed = IF outcome = "failed" THEN @ + 1 ELSE @,
                              !.found = pushProducts(@, outcome)]
    /\ UNCHANGED <<logVars, httpVars, orchVars, locVars, parseCall, inventory, storeInfos, alert, auxVars>>

pushUnlessEmpty(results, result) == IF result.empty THEN results ELSE Append(results, result)

\* results.push(result)
pushResult(results, result) == Append(results, result)

moreStoresAlways(i, n) == TRUE

\* if (i < stores.length - 1), with i counted from 1
moreStores(i, n) == i < n

\* checkStoreInventory returns its result (it catches whatever is thrown, so the
\* catch of checkMultipleStores is never entered); the result is pushed and, unless
\* the store is the last one, the wait before the next store begins
inventoryReturns(hasStock, d) ==
    /\ batch.pc = "check"
    /\ batch.t = batch.terms
    /\ hasStock => batch.found
    /\ d \in InterStoreDelays(batch.retailer)
    /\ LET result == [store |-> batch.i, empty |-> ~batch.found, hasStock |-> hasStock,
                      allFailed |-> batch.failed = batch.terms]
           pushed == [batch EXCEPT !.results = pushResult(@, result)]
       IN IF moreStores(batch.i, batch.n)
          THEN batch' = [pushed EXCEPT !.pc = "delay", !.timer = d,
                                       !.delays = Append(@, d),
                                       !.log = Append(@, <<"delay", batch.i>>)]
          ELSE batch' = loopTo(pushed, batch.i + 1)
    /\ UNCHANGED <<logVars, httpVars, orchVars, locVars, parseCall, inventory, storeInfos, alert, auxVars>>

\* 500 ms of the wait pass
delayTick ==
    /\ batch.pc = "delay"
    /\ batch.timer > 0
    /\ batch' = [batch EXCEPT !.timer = @ - 1]
    /\ UNCHANGED <<logVars, httpVars, orchVars, locVars, parseCall, inventory, storeInfos, alert, auxVars>>

\* the timer fires: the loop goes on with the next store
delayEnds ==
    /\ batch.pc = "delay"
    /\ batch.timer = 0
    /\ batch' = loopTo(batch, batch.i + 1)
    /\ UNCHANGED <<logVars, httpVars, orchVars, locVars, parseCall, inventory, storeInfos, alert, auxVars>>

-----------------------------------------------------------------------------
(* Notifier: sendStockAlert *)

\* `${store.retailer}-${store.id}`
storeKey(store) == <<store.retailer, store.id>>
\* the stores of the results; details stands for the name, distance, address, city,
\* state, zip, phone and hours a result carries for the store, which may differ
\* from one result to the next
StoreDetails == {1, 2}
TrackedStores == [retailer : Retailers, id : {1}, details : StoreDetails]
StoreKeys == {storeKey(store) : store \in TrackedStores}

\* the StockResults the monitors return: hasStock needs a product that matches
StockResults == {res \in [store : TrackedStores, hasStock : BOOLEAN, products : 0..MaxProducts] :
                   res.hasStock => res.products > 0}

NoStoreInfo == [tracked |-> FALSE, details |-> 0, totalChecks |-> 0, successfulChecks |-> 0]

IdleAlert == [pc |-> "idle", batch |-> <<>>, before |-> [k \in StoreKeys |-> NoStoreInfo],
              j |-> 0, recorded |-> <<>>]

InitNotifier ==
    /\ storeInfos = [k \in StoreKeys |-> NoStoreInfo]
    /\ alert = IdleAlert

\* sendStockAlert(results) is called; the results come up as the loops reach them
sendStockAlert ==
    /\ alert.pc \in {"idle", "done"}
    /\ alert' = [IdleAlert EXCEPT !.pc = "tracking", !.before = storeInfos]
    /\ UNCHANGED <<logVars, httpVars, orchVars, locVars, parseCall, inventory, batch, storeInfos, auxVars>>

\* an entry that is made anew for every result
trackedAnew(info, result) ==
    [tracked |-> TRUE, details |-> result.store.details, totalChecks |-> 1,
     successfulChecks |-> IF result.hasStock THEN 1 ELSE 0]

\* an entry whose descriptive fields follow the latest result
trackedRefreshed(info, result) ==
    [trackedAnew(info, result) EXCEPT
        !.totalChecks = IF info.tracked THEN info.totalChecks + 1 ELSE 1,
        !.successfulChecks = IF ~info.tracked THEN @
                             ELSE IF result.hasStock \/ result.products > 0
                             THEN info.successfulChecks + 1 ELSE info.successfulChecks]

\* the store's entry after one more result for it
tracked(info, result) ==
    IF info.tracked
    THEN [info EXCEPT !.totalChecks = @ + 1,
                      !.successfulChecks =
                          IF result.hasStock \/ result.products > 0 THEN @ + 1 ELSE @]
    ELSE [tracked |-> TRUE, details |-> result.store.details, totalChecks |-> 1,
          successfulChecks |-> IF result.hasStock THEN 1 ELSE 0]

\* one round of the loop of updateStoreTracking, for the next result of the batch
updateStoreTracking(result) ==
    /\ alert.pc = "tracking"
    /\ Len(alert.batch) < MaxStores
    /\ storeInfos[storeKey(result.store)].totalChecks < MaxChecks
    /\ storeInfos' = [storeInfos EXCEPT ![storeKey(result.store)] = tracked(@, result)]
    /\ alert' = [alert EXCEPT !.batch = Append(@, result)]
    /\ UNCHANGED <<logVars, httpVars, orchVars, locVars, parseCall, inventory, batch, auxVars>>

\* the loop is over: stores.json is written, and the results with stock are next
updateStores ==
    /\ alert.pc = "tracking"
    /\ alert' = [alert EXCEPT !.pc = "recording", !.j = 1]
    /\ UNCHANGED <<logVars, httpVars, orchVars, locVars, parseCall, inventory, batch, storeInfos, auxVars>>

stockOrProducts(result) == result.hasStock \/ result.products > 0

\* results.filter(result => result.hasStock)
stockFound(result) == result.hasStock

\* the ProductFinds of result j of the batch, one for each of its products
ProductFinds(j, result) ==
    [k \in 1..result.products |-> [store |-> storeKey(result.store), result |-> j,
                                   product |-> k]]

\* recordProductFinds reaches result j of the batch: if it has stock, each of its
\* products is handed to fileLogger.recordProductFind
recordProductFinds ==
    /\ alert.pc = "recording"
    /\ alert.j <= Len(alert.batch)
    /\ alert' = [alert EXCEPT
                   !.j = @ + 1,
                   !.recorded = IF stockFound(alert.batch[alert.j])
                                THEN @ \o ProductFinds(alert.j, alert.batch[alert.j])
                                ELSE @]
    /\ UNCHANGED <<logVars, httpVars, orchVars, locVars, parseCall, inventory, batch, storeInfos, auxVars>>

\* the alerts go out and sendStockAlert returns
sendStockAlertReturn ==
    /\ alert.pc = "recording"
    /\ alert.j > Len(alert.batch)
    /\ alert' = [alert EXCEPT !.pc = "done"]
    /\ UNCHANGED <<logVars, httpVars, orchVars, locVars, parseCall, inventory, batch, storeInfos, auxVars>>

-----------------------------------------------------------------------------
(* AdvancedHttpClient: initializeSession, on its own *)

SessionDomains == {"bestbuy.com", "target.com", "walgreens.com"}

\* domain.includes('bestbuy'), else domain.includes('target')
Recognised(domain) == domain \in {"bestbuy.com", "target.com"}

IdleSession == [pc |-> "idle", domain |-> "", attempt |-> 0, requests |-> 0, log |-> <<>>]

initializeSessionRethrow(s) == [s EXCEPT !.pc = "rejected"]

\* catch (error) { console.log(...) }: the call resolves
initializeSessionCatch(s) == [s EXCEPT !.pc = "resolved"]

\* initializeSession(domain): get() of the homepage is called and sends its first
\* attempt, or there is nothing to do
initializeSession(domain) ==
    /\ session.pc \in {"idle", "resolved"}
    /\ session' = IF Recognised(domain)
                  THEN [IdleSession EXCEPT !.pc = "get", !.domain = domain, !.attempt = 1,
                                           !.requests = 1]
                  ELSE [IdleSession EXCEPT !.pc = "resolved", !.domain = domain]
    /\ UNCHANGED <<httpVars, orchVars, locVars, monVars, finds, summary, mapping, search, auxVars>>

\* the attempt of get() in flight ends with outcome o: get() returns, or it sends the
\* next attempt (the backoff is left to SpecHttp), or it throws and the catch of
\* initializeSession is entered
sessionAttempt(o) ==
    /\ session.pc = "get"
    /\ LET s == [session EXCEPT !.log = Append(@, o)]
       IN session' = IF o.kind = "response" /\ validateStatus(o.status)
                     THEN [s EXCEPT !.pc = "resolved"]
                     ELSE IF s.attempt < maxAttempts
                     THEN [s EXCEPT !.attempt = @ + 1, !.requests = @ + 1]
                     ELSE initializeSessionCatch(s)
    /\ UNCHANGED <<httpVars, orchVars, locVars, monVars, finds, summary, mapping, search, auxVars>>

-----------------------------------------------------------------------------
(* StoreLocator: a raw store record becomes a Store *)

\* a raw record of Best Buy by its keys for phone, distance and hours: "" and
\* Undefined stand for a key that is absent
BestBuyRecords == [phone : {"", "phone"}, phoneNumber : {"", "phoneNumber"},
                   distance : {Undefined, 2}, distanceInMiles : {Undefined, 3},
                   hours : {"", "hours"}, storeHours : {"", "storeHours"}]

\* a raw record of Target; its hours are absent (""), have no entry for the day of
\* the week, or have one
TargetRecords == [phone : {"", "phone"}, phoneNumber : {"", "phoneNumber"},
                  distance_in_miles : {Undefined, 3}, distance : {Undefined, 2},
                  hours : {"", "other days", "today"}]

\* a || b for strings: an absent or empty a gives b
OrElse(a, b) == IF a = "" THEN b ELSE a

\* a || b for the distances
OrElseNumber(a, b) == IF a = Undefined THEN b ELSE a

\* the phone, distance and hours of the Store pushed by parseBestBuyStoreArray
BestBuyStore(storeData) ==
    [phone |-> OrElse(storeData.phone, storeData.phoneNumber),
     distance |-> OrElseNumber(storeData.distance, storeData.distanceInMiles),
     hours |-> OrElse(OrElse(storeData.hours, storeData.storeHours), "Call for hours"),
     retailer |-> "bestbuy"]

\* hours that are left empty when the day has no entry
formatTargetHoursEmpty(hours) ==
    IF hours = "today" THEN "open - close" ELSE ""

\* formatTargetHours(hours)
formatTargetHours(hours) ==
    IF hours = "today" THEN "open - close" ELSE "Hours available online"

\* the phone, distance and hours of the Store pushed by parseTargetStoreArray
TargetStore(storeData) ==
    [phone |-> OrElse(storeData.phone, storeData.phoneNumber),
     distance |-> OrElseNumber(storeData.distance_in_miles, storeData.distance),
     hours |-> OrElse(formatTargetHours(storeData.hours), "Call for hours"),
     retailer |-> "target"]

NoStore == [phone |-> "", distance |-> Undefined, hours |-> "", retailer |-> ""]

IdleMapping == [pc |-> "idle", retailer |-> "bestbuy",
                storeData |-> CHOOSE rec \in BestBuyRecords : TRUE, store |-> NoStore]

\* the loop of parse<Retailer>StoreArray has come to the record storeData
RawRecords ==
    [pc : {"raw"}, retailer : {"bestbuy"}, storeData : BestBuyRecords, store : {NoStore}]
    \cup [pc : {"raw"}, retailer : {"target"}, storeData : TargetRecords, store : {NoStore}]

\* stores.push({...})
pushStore ==
    /\ mapping.pc = "raw"
    /\ mapping' = [mapping EXCEPT
                     !.pc = "pushed",
                     !.store = IF mapping.retailer = "bestbuy"
                               THEN BestBuyStore(mapping.storeData)
                               ELSE TargetStore(mapping.storeData)]
    /\ UNCHANGED <<httpVars, orchVars, locVars, monVars, finds, summary, session, search, auxVars>>

-----------------------------------------------------------------------------
(* BestBuyMonitor: searchProducts *)

SearchEndpoints == 4

\* what a candidate endpoint comes to: get() throws after its retries, or returns a
\* response, accepted (status 200 and a body) or not, whose data.products hold
\* matching products, or none, or a product without a name
SearchThrows == [kind |-> "throws", accepted |-> FALSE, products |-> "none"]
SearchOutcomes == {SearchThrows}
                  \cup [kind : {"returns"}, accepted : BOOLEAN,
                           products : {"none", "some", "nameless"}]

\* let response = null
NoSearchResponse == [kind |-> "null", accepted |-> FALSE, products |-> "none"]

IdleSearch == [pc |-> "idle", idx |-> 0, response |-> NoSearchResponse, log |-> <<>>,
               api |-> "none", scraped |-> FALSE, result |-> "none"]

\* searchProducts(searchTerm, storeId) up to the first candidate's get(); the
\* initializeSession before it never throws
searchProductsCall ==
    /\ search.pc \in {"idle", "returned"}
    /\ search' = [IdleSearch EXCEPT !.pc = "candidate", !.idx = 1]
    /\ UNCHANGED <<httpVars, orchVars, locVars, monVars, finds, summary, session, mapping, auxVars>>

\* after the loop over the endpoints: without a response an exception is thrown and
\* the catch returns [], as it does when product.name.toLowerCase() throws; else the
\* products of the response that is at hand are filtered, and when none is left the
\* search page is scraped
afterEndpoints(s) ==
    IF s.response.kind = "null" \/ s.response.products = "nameless"
    THEN [s EXCEPT !.pc = "returned", !.result = "none"]
    ELSE IF s.response.products = "none" THEN [s EXCEPT !.pc = "scrape"]
    ELSE [s EXCEPT !.pc = "returned", !.api = "some", !.result = "some"]

\* the get() of candidate idx ends
candidateAnswers(o) ==
    /\ search.pc = "candidate"
    /\ LET s == [search EXCEPT !.log = Append(@, o),
                               !.response = IF o.kind = "returns" THEN o ELSE @]
       IN search' = IF o.accepted \/ s.idx = SearchEndpoints THEN afterEndpoints(s)
                    ELSE [s EXCEPT !.idx = @ + 1]
    /\ UNCHANGED <<httpVars, orchVars, locVars, monVars, finds, summary, session, mapping, auxVars>>

\* scrapeSearchResults returns the products of the page, or [] from its catch
scrapeReturns(found) ==
    /\ search.pc = "scrape"
    /\ search' = [search EXCEPT !.pc = "returned", !.scraped = TRUE, !.result = found]
    /\ UNCHANGED <<httpVars, orchVars, locVars, monVars, finds, summary, session, mapping, auxVars>>

-----------------------------------------------------------------------------
(* LocalMonitorService: the results one performCheck gathers (its steps follow
   the phases of performCheck below) *)

\* performCheck has not been called
IdleCheck == [pc |-> "idle", origin |-> "start", bestbuy |-> "", target |-> "", chk |-> "",
              zips |-> 0, zip |-> 0, seen |-> {}, allResults |-> <<>>, alerted |-> <<>>,
              sent |-> FALSE]

-----------------------------------------------------------------------------
(* TargetMonitor and BestBuyMonitor: the requests that go out through axios itself *)

\* no request, or age: time since the latest request to the domain was sent; gap: the
\* age the request before it had when the latest was sent (Undefined for the first)
IdleWire == [pc |-> "idle", left |-> 0, age |-> 0, gap |-> Undefined]

\* TargetMonitor.checkStoreInventory with terms search terms: searchProducts of the
\* first sends its axios.get to redsky.target.com
targetCheckStoreInventory(terms) ==
    /\ wire.pc \in {"idle", "returned"}
    /\ wire' = [IdleWire EXCEPT !.pc = "target", !.left = terms - 1]
    /\ UNCHANGED <<httpVars, orchVars, locVars, monVars, logVars, check, scout>>

\* the axios.get of searchProducts ends, with a response or an error that is caught:
\* the loop goes on to the next term, whose request is sent at once
targetSearchReturns ==
    /\ wire.pc = "target"
    /\ wire' = IF wire.left > 0
               THEN [wire EXCEPT !.left = @ - 1, !.gap = wire.age, !.age = 0]
               ELSE [wire EXCEPT !.pc = "returned"]
    /\ UNCHANGED <<httpVars, orchVars, locVars, monVars, logVars, check, scout>>

\* BestBuyMonitor.searchProducts: httpClient.get sends the request to the candidate
\* endpoint on www.bestbuy.com that will be the last
bestBuyCandidateSent ==
    /\ wire.pc \in {"idle", "returned"}
    /\ wire' = [IdleWire EXCEPT !.pc = "candidate"]
    /\ UNCHANGED <<httpVars, orchVars, locVars, monVars, logVars, check, scout>>

\* the candidate's response has come; without products scrapeSearchResults sends
\* its axios.get to www.bestbuy.com at once
bestBuyCandidateReturns(products) ==
    /\ wire.pc = "candidate"
    /\ wire' = IF products THEN [wire EXCEPT !.pc = "returned"]
               ELSE [wire EXCEPT !.pc = "scrape", !.gap = wire.age, !.age = 0]
    /\ UNCHANGED <<httpVars, orchVars, locVars, monVars, logVars, check, scout>>

\* the axios.get of scrapeSearchResults ends
scrapeEnds ==
    /\ wire.pc = "scrape"
    /\ wire' = [wire EXCEPT !.pc = "returned"]
    /\ UNCHANGED <<httpVars, orchVars, locVars, monVars, logVars, check, scout>>

\* 500 ms pass while a request is in flight
wireTick ==
    /\ wire.pc \in {"target", "candidate", "scrape"}
    /\ wire.age < AgeCap
    /\ wire' = [wire EXCEPT !.age = @ + 1]
    /\ UNCHANGED <<httpVars, orchVars, locVars, monVars, logVars, check, scout>>

-----------------------------------------------------------------------------
(* Scout *)

\* the keys `${retailer}-${item.sku}` of the items of a SKU file
ScoutKeys == {"walmart-1", "bestbuy-1"}

\* the items of skus.json in the order startMonitoring takes them; a retailer/sku
\* pair may be repeated
SkuFiles == UNION {[1..n -> ScoutKeys] : n \in 0..MaxItems}

ScoutTimers == 1..MaxScoutTimers

\* intervals: this.intervals, 0 for a key it does not hold; timers: the setInterval
\* timers that are scheduled; jitters: the setTimeout(checkStock, jitter) pending;
\* restarts: the setTimeout(startMonitoring, 1000) pending
NewScout == [skuConfig \in SkuFiles |->
               [skuConfig |-> skuConfig, isRunning |-> FALSE,
                intervals |-> [k \in ScoutKeys |-> 0], timers |-> {}, jitters |-> 0,
                restarts |-> 0, last |-> "new", exited |-> FALSE]]

RECURSIVE setIntervals(_, _)
\* the loop of startMonitoring over the first n items: checkStock at once, a new
\* timer, this.intervals.set(key, interval)
setIntervals(s, n) ==
    IF n = 0 THEN s
    ELSE LET before == setIntervals(s, n - 1)
             free == ScoutTimers \ before.timers
             interval == CHOOSE t \in free : \A u \in free : t <= u
         IN [before EXCEPT !.timers = @ \cup {interval},
                           !.intervals[s.skuConfig[n]] = interval]

\* startMonitoring()
startMonitoring(s) ==
    IF s.isRunning THEN s
    ELSE setIntervals([s EXCEPT !.isRunning = TRUE], Len(s.skuConfig))

\* a stopMonitoring that cancels every timer there is
stopMonitoringAll(s) ==
    [s EXCEPT !.isRunning = FALSE, !.timers = {}, !.intervals = [k \in ScoutKeys |-> 0]]

\* stopMonitoring(): clearInterval for the values of this.intervals, then clear()
stopMonitoring(s) ==
    [s EXCEPT !.isRunning = FALSE,
              !.timers = @ \ {s.intervals[k] : k \in ScoutKeys},
              !.intervals = [k \in ScoutKeys |-> 0]]

\* as many timers are free as the items of the file need
TimersLeft(s) == Cardinality(s.timers) + Len(s.skuConfig) <= MaxScoutTimers

\* scout.start()
scoutStart ==
    /\ scout.last = "new"
    /\ scout' = [startMonitoring(scout) EXCEPT !.last = "start"]
    /\ UNCHANGED <<httpVars, orchVars, locVars, monVars, logVars, check, wire>>

\* the watcher's 'change': loadSKUs, restartMonitoring
skuFileChange(file) ==
    /\ ~scout.exited /\ scout.last # "new"
    /\ scout.restarts < MaxRestarts
    /\ scout' = [stopMonitoring([scout EXCEPT !.skuConfig = file])
                   EXCEPT !.restarts = @ + 1, !.last = "stop"]
    /\ UNCHANGED <<httpVars, orchVars, locVars, monVars, logVars, check, wire>>

\* the setTimeout of restartMonitoring fires: startMonitoring
restartFires ==
    /\ ~scout.exited
    /\ scout.restarts > 0
    /\ TimersLeft(scout)
    /\ scout' = [startMonitoring(scout) EXCEPT !.restarts = @ - 1, !.last = "start"]
    /\ UNCHANGED <<httpVars, orchVars, locVars, monVars, logVars, check, wire>>

\* a polling timer fires: setTimeout(checkStock, jitter)
intervalFires(interval) ==
    /\ ~scout.exited
    /\ interval \in scout.timers
    /\ scout.jitters < MaxJitters
    /\ scout' = [scout EXCEPT !.jitters = @ + 1, !.last = "interval"]
    /\ UNCHANGED <<httpVars, orchVars, locVars, monVars, logVars, check, wire>>

\* the jitter is over: checkStock(retailer, item) is called
jitterFires ==
    /\ ~scout.exited
    /\ scout.jitters > 0
    /\ scout' = [scout EXCEPT !.jitters = @ - 1, !.last = "checkStock"]
    /\ UNCHANGED <<httpVars, orchVars, locVars, monVars, logVars, check, wire>>

\* SIGINT: stopMonitoring, process.exit(0), with which every timer is gone
sigint ==
    /\ ~scout.exited /\ scout.last # "new"
    /\ scout' = [stopMonitoring(scout) EXCEPT !.timers = {}, !.jitters = 0, !.restarts = 0,
                                              !.last = "stop", !.exited = TRUE]
    /\ UNCHANGED <<httpVars, orchVars, locVars, monVars, logVars, check, wire>>

\* the parts of the system modelled on their own, before anything is called
InitAux ==
    /\ check = IdleCheck
    /\ wire = IdleWire
    /\ scout = NewScout[<<>>]

\* the calls before they are made
InitCalls ==
    /\ session = IdleSession
    /\ mapping = IdleMapping
    /\ search = IdleSearch
    /\ InitAux

-----------------------------------------------------------------------------
(* FileLogger *)

Days == 1..(MaxMidnights + 1)

\* no products-found.json, no daily file
NoFinds == [rolling |-> <<>>, daily |-> [d \in Days |-> <<>>], today |-> 1, count |-> 0]

\* finds.unshift(productFind)
unshift(list, productFind) == <<productFind>> \o list

sliceAll(list, end) == list

\* list.slice(0, end)
slice(list, end) == IF Len(list) <= end THEN list ELSE SubSeq(list, 1, end)

\* getRecentFinds(limit)
getRecentFinds(rolling, limit) == slice(rolling, limit)

SummaryStamped(status, stores, rolling) ==
    [status |-> IF ~status.written THEN "" ELSE IF status.isRunning THEN "RUNNING" ELSE "STOPPED",
     stores |-> summary.calls,
     byRetailer |-> [r \in Retailers |-> 0],
     recent |-> Len(getRecentFinds(rolling, 10)),
     shown |-> slice(getRecentFinds(rolling, 10), 5)]

\* the text of generateSummary: the status line, the number of stores and of the
\* stores of each retailer, the number of recent finds and the first five of them
SummaryText(status, stores, rolling) ==
    [status |-> IF ~status.written THEN "" ELSE IF status.isRunning THEN "RUNNING" ELSE "STOPPED",
     stores |-> Cardinality({k \in DOMAIN stores : stores[k].tracked}),
     byRetailer |-> [r \in Retailers |->
                       Cardinality({k \in DOMAIN stores : stores[k].tracked /\ k[1] = r})],
     recent |-> Len(getRecentFinds(rolling, 10)),
     shown |-> slice(getRecentFinds(rolling, 10), 5)]

\* no generateSummary since the files were written last
NoSummary == [text |-> [status |-> "", stores |-> 0, byRetailer |-> [r \in Retailers |-> 0],
                        recent |-> 0, shown |-> <<>>],
              calls |-> 0]

\* recordProductFind(productFind), the find told by its number and its timestamp's day
recordProductFind ==
    /\ finds.count < MaxFinds
    /\ LET productFind == [n |-> finds.count + 1, day |-> finds.today]
       IN finds' = [finds EXCEPT
                      !.count = @ + 1,
                      !.rolling = slice(unshift(@, productFind), RollingCap),
                      !.daily[finds.today] = Append(@, productFind)]
    /\ summary' = NoSummary
    /\ UNCHANGED <<httpVars, orchVars, locVars, monVars, session, mapping, search, auxVars>>

\* the date changes: new Date().toISOString().split('T')[0] names another daily file
midnight ==
    /\ finds.today <= MaxMidnights
    /\ finds' = [finds EXCEPT !.today = @ + 1]
    /\ UNCHANGED <<httpVars, orchVars, locVars, monVars, summary, session, mapping, search, auxVars>>

\* updateStatus(status)
updateStatus(running) ==
    /\ statusFile' = [written |-> TRUE, isRunning |-> running]
    /\ summary' = NoSummary
    /\ UNCHANGED <<httpVars, enabled, isRunning, intervalId, timers, cycles, afterStop, fx,
                   locVars, monVars, finds, session, mapping, search, auxVars>>

\* the StoreInfo of a store checked once
CheckedOnce == [tracked |-> TRUE, details |-> 1, totalChecks |-> 1, successfulChecks |-> 0]

\* updateStores(stores)
updateStoresFile(stores) ==
    /\ storeInfos' = stores
    /\ summary' = NoSummary
    /\ UNCHANGED <<httpVars, orchVars, locVars, parseCall, inventory, batch, alert,
                   finds, session, mapping, search, auxVars>>

\* generateSummary(); calls counts the calls since the files were written last, up to 2
generateSummary ==
    /\ summary' = [text |-> SummaryText(statusFile, storeInfos, finds.rolling),
                   calls |-> IF summary.calls < 2 THEN summary.calls + 1 ELSE 2]
    /\ UNCHANGED <<httpVars, orchVars, locVars, monVars, finds, session, mapping, search, auxVars>>

InitLogger ==
    /\ finds = NoFinds
    /\ summary = NoSummary
    /\ InitCalls

\* the monitors, the Notifier and the FileLogger before any call
InitMonitors ==
    /\ parseCall = IdleParse
    /\ inventory = IdleInventory
    /\ batch = IdleBatch
    /\ InitNotifier
    /\ InitLogger

-----------------------------------------------------------------------------
(* LocalMonitorService *)

\* the domain the lookups and the checks of a retailer send their requests to
Domain(r) == IF r = "bestbuy" THEN "bestbuy.com" ELSE "target.com"

NoTimer == 0

\* performCheck is entered: the first ZIP code's findAllStores starts both lookups
NewCycle(origin) == [pc |-> "discover", origin |-> origin, bestbuy |-> "wait",
                     target |-> "wait", chk |-> ""]

Fx(op) == [op |-> op, error |-> FALSE, statusWritten |-> FALSE, summaryWritten |-> FALSE,
           began |-> FALSE, caught |-> FALSE]

Running == BagToSet(cycles)
Replace(rec, new) == (cycles (-) SetToBag({rec})) (+) SetToBag({new})
FreeTimers == (1..MaxTimers) \ timers
FreeTimer == CHOOSE t \in FreeTimers : \A u \in FreeTimers : t <= u
\* the start() calls that wait for their initial performCheck
StartsInProgress == BagCardinality([rec \in {r \in Running : r.origin = "start"} |->
                                      cycles[rec]])

InitService(flags) ==
    /\ enabled \in flags
    /\ isRunning = FALSE
    /\ intervalId = NoTimer
    /\ timers = {}
    /\ cycles = EmptyBag
    /\ statusFile = [written |-> FALSE, isRunning |-> FALSE]
    /\ afterStop = FALSE
    /\ fx = Fx("new")

\* notifier.updateMonitorStatus(config, running)
updateMonitorStatus(running) == statusFile' = [written |-> TRUE, isRunning |-> running]

\* start(): rejected while running; else isRunning is set, the status is written and
\* the initial performCheck is entered (start() then waits for it)
startAccepted ==
    /\ BagCardinality(cycles) < MaxCycles
    /\ Cardinality(timers) + StartsInProgress < MaxTimers
    /\ isRunning' = TRUE
    /\ updateMonitorStatus(TRUE)
    /\ cycles' = cycles (+) SetToBag({NewCycle("start")})
    /\ fx' = [Fx("start") EXCEPT !.statusWritten = TRUE, !.began = TRUE]
    /\ UNCHANGED <<intervalId, timers, auxVars>>

\* the early return left out: the error is logged and start() goes on
startRejectedNoReturn ==
    /\ startAccepted

startRejected ==
    /\ fx' = [Fx("start") EXCEPT !.error = TRUE]
    /\ UNCHANGED <<isRunning, intervalId, timers, cycles, statusFile, auxVars>>

start ==
    /\ afterStop' = FALSE
    /\ IF isRunning THEN startRejected ELSE startAccepted
    /\ UNCHANGED <<enabled, httpVars, locVars, monVars, logVars, auxVars>>

\* stop(): rejected while not running; else isRunning is cleared, the timer intervalId
\* refers to is cancelled, the status and the summary are written
stopAccepted ==
    /\ isRunning' = FALSE
    /\ IF intervalId # NoTimer
       THEN timers' = timers \ {intervalId} /\ intervalId' = NoTimer
       ELSE UNCHANGED <<timers, intervalId, auxVars>>
    /\ updateMonitorStatus(FALSE)
    /\ fx' = [Fx("stop") EXCEPT !.statusWritten = TRUE, !.summaryWritten = TRUE]

\* the early return left out: the error is logged and stop() goes on
stopRejectedNoReturn ==
    /\ stopAccepted

stopRejected ==
    /\ fx' = [Fx("stop") EXCEPT !.error = TRUE]
    /\ UNCHANGED <<isRunning, intervalId, timers, statusFile, auxVars>>

stop ==
    /\ afterStop' = TRUE
    /\ IF ~isRunning THEN stopRejected ELSE stopAccepted
    /\ UNCHANGED <<enabled, cycles, httpVars, locVars, monVars, logVars, auxVars>>

\* a setInterval timer fires: its callback enters performCheck
TimerTick(t) ==
    /\ t \in timers
    /\ BagCardinality(cycles) < MaxCycles
    /\ cycles' = cycles (+) SetToBag({NewCycle("tick")})
    /\ fx' = [Fx("tick") EXCEPT !.began = TRUE]
    /\ UNCHANGED <<enabled, isRunning, intervalId, timers, statusFile, afterStop, httpVars, locVars, monVars, logVars, auxVars>>

\* a catch block that gives up and marks the monitor stopped
performCheckCatchStops ==
    /\ isRunning' = FALSE
    /\ updateMonitorStatus(FALSE)

\* the catch block of performCheck: sendError, updateMonitorStatus(config, isRunning)
performCheckCatch ==
    /\ isRunning' = isRunning
    /\ updateMonitorStatus(isRunning)

\* a cycle that reports the monitor as running whenever it ends
performCheckEndWritesRunning ==
    /\ isRunning' = isRunning
    /\ updateMonitorStatus(TRUE)

\* the end of performCheck's try block: sendStockAlert, updateMonitorStatus
performCheckEnd ==
    /\ isRunning' = isRunning
    /\ updateMonitorStatus(isRunning)

\* start() after its await: setInterval, the summary
startContinue ==
    /\ intervalId' = FreeTimer
    /\ timers' = timers \cup {FreeTimer}

\* performCheck of the cycle rec returns, through its catch block or not; when
\* start() awaited it, start() goes on
Return(rec, caught) ==
    /\ IF caught THEN performCheckCatch ELSE performCheckEnd
    /\ cycles' = cycles (-) SetToBag({rec})
    /\ IF rec.origin = "start" THEN startContinue ELSE UNCHANGED <<intervalId, timers, auxVars>>
    /\ fx' = [Fx("performCheck") EXCEPT !.error = caught, !.caught = caught,
                !.statusWritten = TRUE, !.summaryWritten = (rec.origin = "start")]

\* a performCheck that checks the stores of every retailer it has found stores of
PhaseAllRetailers(new, moreZips) ==
    IF new.pc = "discover" /\ new.bestbuy = "some"
    THEN [new EXCEPT !.pc = "bestbuy", !.bestbuy = "", !.chk = "wait"]
    ELSE IF new.pc \in {"discover", "bestbuy"} /\ new.target = "some"
    THEN [new EXCEPT !.pc = "target", !.bestbuy = "", !.target = "", !.chk = "wait"]
    ELSE IF moreZips
    THEN [new EXCEPT !.pc = "discover", !.bestbuy = "wait", !.target = "wait"]
    ELSE [new EXCEPT !.pc = "end"]

\* where performCheck goes after the phase new.pc has ended; moreZips: another ZIP
\* code of config.zip_codes is left
Phase(new, moreZips) ==
    IF new.pc = "discover" /\ enabled["bestbuy"] /\ new.bestbuy = "some"
    THEN [new EXCEPT !.pc = "bestbuy", !.bestbuy = "", !.chk = "wait"]
    ELSE IF new.pc \in {"discover", "bestbuy"} /\ enabled["target"] /\ new.target = "some"
    THEN [new EXCEPT !.pc = "target", !.bestbuy = "", !.target = "", !.chk = "wait"]
    ELSE IF moreZips
    THEN [new EXCEPT !.pc = "discover", !.bestbuy = "wait", !.target = "wait"]
    ELSE [new EXCEPT !.pc = "end"]

\* performCheck goes on after an await returned (the cycle rec is now new), or an
\* exception is raised there
Proceed(rec, new, threw, moreZips) ==
    IF threw \/ Phase(new, moreZips).pc = "end"
    THEN Return(rec, threw)
    ELSE /\ cycles' = Replace(rec, Phase(new, moreZips))
         /\ fx' = Fx("performCheck")
         /\ UNCHANGED <<isRunning, intervalId, timers, statusFile, auxVars>>

\* a store lookup of findAllStores sends its next request
LookupSend(rec, r) ==
    /\ rec \in Running
    /\ rec.pc = "discover"
    /\ rec[r] = "wait"
    /\ cycles' = Replace(rec, [rec EXCEPT ![r] = "sent"])
    /\ fx' = Fx("performCheck")
    /\ UNCHANGED <<enabled, isRunning, intervalId, timers, statusFile, afterStop, httpVars, locVars, monVars, logVars, auxVars>>

\* a lookup's request ends: another request follows, or the lookup returns; when
\* both lookups have returned, findAllStores returns to performCheck, found telling
\* which retailers it has stores of
LookupResponse(rec, r, returns, found, threw, moreZips) ==
    /\ rec \in Running
    /\ rec.pc = "discover"
    /\ rec[r] = "sent"
    /\ LET new == [rec EXCEPT ![r] = IF returns THEN "done" ELSE "wait"] IN
       IF new.bestbuy = "done" /\ new.target = "done"
       THEN Proceed(rec, [new EXCEPT !.bestbuy = found.bestbuy, !.target = found.target],
                    threw, moreZips)
       ELSE /\ ~threw /\ ~moreZips
            /\ found = [x \in Retailers |-> "none"]
            /\ cycles' = Replace(rec, new)
            /\ fx' = Fx("performCheck")
            /\ UNCHANGED <<isRunning, intervalId, timers, statusFile, auxVars>>
    /\ UNCHANGED <<enabled, afterStop, httpVars, locVars, monVars, logVars, auxVars>>

\* checkMultipleStores of the retailer rec.pc sends its next request
CheckSend(rec) ==
    /\ rec \in Running
    /\ rec.pc \in Retailers
    /\ rec.chk = "wait"
    /\ cycles' = Replace(rec, [rec EXCEPT !.chk = "sent"])
    /\ fx' = Fx("performCheck")
    /\ UNCHANGED <<enabled, isRunning, intervalId, timers, statusFile, afterStop, httpVars, locVars, monVars, logVars, auxVars>>

\* a check's request ends: another follows, or checkMultipleStores returns its results
CheckResponse(rec, more, threw, moreZips) ==
    /\ rec \in Running
    /\ rec.pc \in Retailers
    /\ rec.chk = "sent"
    /\ IF more
       THEN /\ ~threw /\ ~moreZips
            /\ cycles' = Replace(rec, [rec EXCEPT !.chk = "wait"])
            /\ fx' = Fx("performCheck")
            /\ UNCHANGED <<isRunning, intervalId, timers, statusFile, auxVars>>
       ELSE Proceed(rec, [rec EXCEPT !.chk = ""], threw, moreZips)
    /\ UNCHANGED <<enabled, afterStop, httpVars, locVars, monVars, logVars, auxVars>>

\* performCheck is entered with zips ZIP codes in config.zip_codes: findAllStores of
\* the first is awaited
performCheckCall(zips) ==
    /\ check.pc \in {"idle", "end"}
    /\ check' = [IdleCheck EXCEPT !.pc = "discover", !.zips = zips, !.zip = 1]
    /\ UNCHANGED <<httpVars, orchVars, locVars, monVars, logVars, wire, scout>>

\* performCheck after the phase new.pc of ZIP code new.zip: the next phase, the next
\* ZIP code, or sendStockAlert(allResults)
Gathered(new) ==
    LET next == Phase(new, new.zip < new.zips)
    IN IF next.pc = "end" THEN [next EXCEPT !.alerted = new.allResults, !.sent = TRUE]
       ELSE IF next.pc = "discover" THEN [next EXCEPT !.zip = @ + 1]
       ELSE next

\* findAllStores returns; found tells of which retailers it has stores
findAllStoresReturns(found) ==
    /\ check.pc = "discover"
    /\ check' = Gathered([check EXCEPT
                            !.bestbuy = found.bestbuy, !.target = found.target,
                            !.seen = @ \cup {r \in Retailers : found[r] = "some"}])
    /\ UNCHANGED <<httpVars, orchVars, locVars, monVars, logVars, wire, scout>>

\* checkMultipleStores of the monitor of check.pc returns:
\* allResults.push(...results)
checkMultipleStoresReturns ==
    /\ check.pc \in Retailers
    /\ check' = Gathered([check EXCEPT !.chk = "", !.allResults = Append(@, check.pc)])
    /\ UNCHANGED <<httpVars, orchVars, locVars, monVars, logVars, wire, scout>>

Init == /\ InitHttpClient({LocatorConfig}) /\ InitService([Retailers -> BOOLEAN])
        /\ InitLocator /\ InitMonitors

Next ==
    \/ start
    \/ stop
    \/ \E t \in 1..MaxTimers : TimerTick(t)
    \/ \E rec \in Running, r \in Retailers : LookupSend(rec, r)
    \/ \E rec \in Running, r \in Retailers, returns \in BOOLEAN,
          found \in [Retailers -> {"some", "none"}], threw \in BOOLEAN,
          moreZips \in BOOLEAN :
          LookupResponse(rec, r, returns, found, threw, moreZips)
    \/ \E rec \in Running : CheckSend(rec)
    \/ \E rec \in Running, more \in BOOLEAN, threw \in BOOLEAN, moreZips \in BOOLEAN :
          CheckResponse(rec, more, threw, moreZips)

Spec == Init /\ [][Next]_vars

-----------------------------------------------------------------------------
(* The specification of the HTTP client alone *)

AllEnabled == {[r \in Retailers |-> TRUE]}

InitHttp == /\ InitHttpClient(Configs) /\ InitService(AllEnabled) /\ InitLocator
            /\ InitMonitors

NextHttp ==
    \/ \E c \in Callers, h \in Hosts : GetCall(c, h)
    \/ \E c \in Callers : AddDelayWake(c)
    \/ \E c \in Callers, o \in Outcomes : Respond(c, o)
    \/ \E c \in Callers : BackoffWake(c)
    \/ Tick

SpecHttp == InitHttp /\ [][NextHttp]_vars

-----------------------------------------------------------------------------
(* The specification of the store locator alone *)

InitLoc == /\ InitHttpClient({LocatorConfig}) /\ InitService(AllEnabled) /\ InitLocator
           /\ InitMonitors

NextLocator ==
    \/ findAllStores
    \/ \E r \in Retailers, o \in Outcomes, data \in Bodies : GetAttempt(r, o, data)
    \/ findAllStoresReturn

SpecLocator == InitLoc /\ [][NextLocator]_vars

-----------------------------------------------------------------------------
(* The specifications of the parse, of the monitors and of the Notifier alone *)

InitRest == InitHttpClient({LocatorConfig}) /\ InitService(AllEnabled) /\ InitLocator

InitParse ==
    /\ InitRest
    /\ parseCall \in AcceptedCalls
    /\ inventory = IdleInventory /\ batch = IdleBatch /\ InitNotifier /\ InitLogger

NextParse == ParseAccepted

SpecParse == InitParse /\ [][NextParse]_vars

InitInventory ==
    /\ InitRest
    /\ inventory \in Inventories
    /\ parseCall = IdleParse /\ batch = IdleBatch /\ InitNotifier /\ InitLogger

NextInventory ==
    \/ searchProducts
    \/ checkStoreInventory

SpecInventory == InitInventory /\ [][NextInventory]_vars

InitBatch == InitRest /\ InitMonitors

NextBatch ==
    \/ \E r \in Retailers, n \in 0..MaxStores, terms \in 0..MaxTerms :
          checkMultipleStores(r, n, terms)
    \/ \E outcome \in {"failed", "none", "some"} : searchReturns(outcome)
    \/ \E hasStock \in BOOLEAN, d \in {4, 6, 9} : inventoryReturns(hasStock, d)
    \/ delayTick
    \/ delayEnds

SpecBatch == InitBatch /\ [][NextBatch]_vars

NextNotifier ==
    \/ sendStockAlert
    \/ \E result \in StockResults : updateStoreTracking(result)
    \/ updateStores
    \/ recordProductFinds
    \/ sendStockAlertReturn

InitAlert == InitRest /\ InitMonitors

SpecNotifier == InitAlert /\ [][NextNotifier]_vars

-----------------------------------------------------------------------------
(* The specifications of the FileLogger and of the calls on their own *)

NextLogger ==
    \/ recordProductFind
    \/ midnight

SpecLogger == InitAlert /\ [][NextLogger]_vars

NextSummary ==
    \/ finds.count < MaxRecent /\ recordProductFind
    \/ \E running \in BOOLEAN : updateStatus(running)
    \/ \E stores \in [StoreKeys -> {NoStoreInfo, CheckedOnce}] : updateStoresFile(stores)
    \/ generateSummary

SpecSummary == InitAlert /\ [][NextSummary]_vars

NextSession ==
    \/ \E domain \in SessionDomains : initializeSession(domain)
    \/ \E o \in Outcomes : sessionAttempt(o)

SpecSession == InitHttp /\ [][NextSession]_vars

InitStore ==
    /\ InitRest
    /\ parseCall = IdleParse /\ inventory = IdleInventory /\ batch = IdleBatch
    /\ InitNotifier
    /\ finds = NoFinds /\ summary = NoSummary
    /\ session = IdleSession /\ search = IdleSearch
    /\ InitAux
    /\ mapping \in RawRecords

NextStore == pushStore

SpecStore == InitStore /\ [][NextStore]_vars

NextSearch ==
    \/ searchProductsCall
    \/ \E o \in SearchOutcomes : candidateAnswers(o)
    \/ \E found \in {"none", "some"} : scrapeReturns(found)

SpecSearch == InitAlert /\ [][NextSearch]_vars

-----------------------------------------------------------------------------
(* The specifications of one performCheck, of the monitors' own requests and of
   the Scout *)

NextCheck ==
    \/ \E zips \in 1..MaxZips : performCheckCall(zips)
    \/ \E found \in [Retailers -> {"some", "none"}] : findAllStoresReturns(found)
    \/ checkMultipleStoresReturns

SpecCheck == Init /\ [][NextCheck]_vars

NextWire ==
    \/ \E terms \in 1..MaxTerms : targetCheckStoreInventory(terms)
    \/ targetSearchReturns
    \/ bestBuyCandidateSent
    \/ \E products \in BOOLEAN : bestBuyCandidateReturns(products)
    \/ scrapeEnds
    \/ wireTick

SpecWire == InitAlert /\ [][NextWire]_vars

InitScout ==
    /\ InitRest
    /\ parseCall = IdleParse /\ inventory = IdleInventory /\ batch = IdleBatch
    /\ InitNotifier
    /\ finds = NoFinds /\ summary = NoSummary
    /\ session = IdleSession /\ mapping = IdleMapping /\ search = IdleSearch
    /\ check = IdleCheck /\ wire = IdleWire
    /\ scout \in {NewScout[file] : file \in SkuFiles}

NextScout ==
    \/ scoutStart
    \/ \E file \in SkuFiles : skuFileChange(file)
    \/ restartFires
    \/ \E interval \in ScoutTimers : intervalFires(interval)
    \/ jitterFires
    \/ sigint

SpecScout == InitScout /\ [][NextScout]_vars

-----------------------------------------------------------------------------
(* Claims about AdvancedHttpClient, under SpecHttp *)

\* an HTTP send to host h starts in this step
Sending(h) == \E c \in Callers : /\ calls[c].pc # "inflight"
                                 /\ calls'[c].pc = "inflight"
                                 /\ calls'[c].host = h

\* C1: any two consecutive HTTP sends to the same hostname, every retry attempt
\* counted as a send, start at least delayBetweenRequests apart.
C1_SendsSpaced ==
    [][\A h \in Hosts : Sending(h) => sinceSend[h] >= minDelay]_vars

\* C3: a get() call whose every attempt fails has made exactly the configured
\* maxRetries attempts when it throws, for every configured value of maxRetries.
C3_ExactlyMaxRetriesAttempts ==
    \A c \in Callers : calls[c].pc = "thrown" => calls[c].attempt = config.maxRetries

\* C4: a response with status below 500 ends the call on that attempt and is
\* returned as it is, with no further attempt; a response with status 500 or above
\* (or no response) is never returned and counts as a failed attempt.
C4_Below500ReturnedElseFailed ==
    /\ [][\A c \in Callers, o \in Outcomes : Respond(c, o) =>
            IF o.kind = "response" /\ o.status < 500
            THEN /\ calls'[c].pc = "returned"
                 /\ calls'[c].response = o
                 /\ calls'[c].attempt = calls[c].attempt
            ELSE /\ calls'[c].pc \in {"backoff", "thrown"}
                 /\ calls'[c].lastError = o
                 /\ calls'[c].response = NoResponse]_vars
    /\ [](\A c \in Callers : calls[c].pc = "returned" =>
            calls[c].response.kind = "response" /\ calls[c].response.status < 500)
    /\ [][\A c \in Callers : calls[c].pc = "returned" /\ calls'[c].pc = "returned" =>
            calls'[c] = calls[c]]_vars

\* a 404 was returned by the second attempt, the first having failed
C4_Witness ==
    \E c \in Callers : /\ calls[c].pc = "returned"
                       /\ calls[c].response.status = 404
                       /\ calls[c].attempt = 2

-----------------------------------------------------------------------------
(* Claims about LocalMonitorService, under Spec *)

Domains == {Domain(r) : r \in Retailers}

\* whether the cycle rec has a request to domain d in flight
HasInFlight(rec, d) ==
    \/ rec.pc = "discover" /\ \E r \in Retailers : rec[r] = "sent" /\ Domain(r) = d
    \/ rec.pc \in Retailers /\ rec.chk = "sent" /\ Domain(rec.pc) = d

\* the number of requests in flight to domain d (a cycle has at most one)
RequestsInFlight(d) ==
    BagCardinality([rec \in {x \in Running : HasInFlight(x, d)} |-> cycles[rec]])

\* C2: at most one outbound request to any given domain is in flight at a time.
C2_OneRequestPerDomain == \A d \in Domains : RequestsInFlight(d) <= 1

\* C5: once stop() has returned, no check cycle begins until start() is called
\* again, and stop() leaves the cycles in progress alone.
C5_NoCycleAfterStop ==
    /\ [][BagCardinality(cycles') > BagCardinality(cycles) => ~afterStop']_vars
    /\ [][fx'.op = "stop" => cycles' = cycles]_vars

\* C6: an exception raised inside a check cycle is caught by performCheck: isRunning
\* is left as it is, every scheduled timer stays scheduled (intervalId changes only
\* when the start() that awaited the cycle goes on to create its timer), and a tick
\* of a scheduled timer starts a new cycle.
C6_CycleExceptionCaught ==
    /\ [][fx'.op = "performCheck" /\ fx'.caught =>
            /\ isRunning' = isRunning
            /\ timers \subseteq timers'
            /\ intervalId' = intervalId \/ (fx'.summaryWritten /\ intervalId' \in timers')
            /\ statusFile' = [written |-> TRUE, isRunning |-> isRunning]]_vars
    /\ [](\A t \in timers : BagCardinality(cycles) < MaxCycles => ENABLED TimerTick(t))

\* a cycle begun by a tick threw while the monitor runs with its timer scheduled
C6_Witness ==
    /\ fx.op = "performCheck" /\ fx.caught /\ ~fx.summaryWritten
    /\ isRunning /\ intervalId \in timers

\* C7: start() called while the monitor is running only logs an error: isRunning
\* stays true, no cycle is begun, no timer is created or replaced, no status record
\* is written.
C7_StartWhileRunningIsNoOp ==
    [][fx'.op = "start" /\ isRunning =>
          /\ isRunning'
          /\ cycles' = cycles
          /\ timers' = timers
          /\ intervalId' = intervalId
          /\ statusFile' = statusFile
          /\ fx'.error /\ ~fx'.statusWritten /\ ~fx'.summaryWritten /\ ~fx'.began]_vars

\* start() was rejected while a timer was scheduled
C7_Witness == fx.op = "start" /\ fx.error /\ isRunning /\ intervalId \in timers

\* C8: stop() called while the monitor is not running only logs an error: isRunning,
\* the interval timer handle, the scheduled timers and the status record are left
\* unchanged and no summary is written.
C8_StopWhileStoppedIsNoOp ==
    [][fx'.op = "stop" /\ ~isRunning =>
          /\ ~isRunning'
          /\ intervalId' = intervalId
          /\ timers' = timers
          /\ statusFile' = statusFile
          /\ fx'.error /\ ~fx'.statusWritten /\ ~fx'.summaryWritten]_vars

\* stop() was rejected while intervalId referred to a scheduled timer
C8_Witness == fx.op = "stop" /\ fx.error /\ ~isRunning /\ intervalId \in timers

-----------------------------------------------------------------------------
(* Claims about StoreLocator, under SpecLocator *)

\* the candidates 1..n were requested one after the other, after the homepage
InListOrder(log) == \A i \in 1..Len(log) : log[i] = i - 1

\* the get() of the candidate idx has ended for good in this step
CandidateEnds(r) ==
    /\ lookups[r].pc = "candidate"
    /\ lookups'[r].pc = "done" \/ lookups'[r].idx # lookups[r].idx

\* C9: the candidate endpoints of a lookup are requested strictly in list order; the
\* first one answered with status 200 and a non-empty body is accepted and no later
\* one is requested; one whose get() throws, or that is answered with another status
\* or an empty body, is skipped and the next one is requested.
C9_CandidatesInOrderFirstAccepted ==
    /\ [](\A r \in Retailers :
            /\ InListOrder(lookups[r].log)
            /\ Len(lookups[r].log) <= NumEndpoints(r) + 1
            /\ lookups[r].accepted # 0 =>
                 /\ lookups[r].pc = "done"
                 /\ lookups[r].log[Len(lookups[r].log)] = lookups[r].accepted)
    /\ [][\A r \in Retailers : CandidateEnds(r) =>
              LET L == lookups[r]
                  M == lookups'[r]
              IN IF M.response.status = 200 /\ ~M.response.empty
                 THEN M.pc = "done" /\ M.accepted = L.idx /\ M.log = L.log
                 ELSE /\ M.accepted = 0
                      /\ IF L.idx < NumEndpoints(r)
                         THEN /\ M.pc = "candidate" /\ M.idx = L.idx + 1
                              /\ M.log = Append(L.log, L.idx + 1)
                         ELSE M.pc = "done" /\ M.log = L.log /\ M.stores = <<>>]_vars

\* the Target lookup skipped two candidates and accepted the third
C9_Witness ==
    /\ lookups["target"].pc = "done"
    /\ lookups["target"].accepted = 3
    /\ lookups["target"].log = <<Homepage, 1, 2, 3>>
    /\ lookups["target"].response = [status |-> 200, empty |-> FALSE]

\* C10: a lookup ends with a store list, never with an exception; the list is empty
\* when every candidate failed and when the accepted body is malformed or matches no
\* known shape; findAllStores returns the stores of every lookup.
C10_EmptyListOnFailure ==
    /\ \A r \in Retailers :
         lookups[r].pc = "done" /\ (lookups[r].accepted = 0 \/ ~lookups[r].wellFormed) =>
           lookups[r].stores = <<>>
    /\ discovery.pc = "returned" =>
         \A r \in Retailers : \A i \in 1..Len(lookups[r].stores) :
            \E j \in 1..Len(discovery.allStores) :
               discovery.allStores[j] = lookups[r].stores[i]

-----------------------------------------------------------------------------
(* Claims about the parse of an accepted store response, under SpecParse *)

\* the body is a JSON array whose elements are all store records
ArrayOfRecords(data) ==
    /\ data.shape = "array"
    /\ \A i \in 1..Len(data.payload.elems) : data.payload.elems[i].kind = "object"

\* C11: for either retailer and whichever candidate endpoint was accepted, when the
\* accepted body is a JSON array of store records, the returned store list is
\* exactly the mapped elements of that array, in order.
C11_ArrayBodyMappedInOrder ==
    (parseCall.pc = "returned" /\ ArrayOfRecords(parseCall.data))
        => parseCall.stores = [i \in 1..Len(parseCall.data.payload.elems) |->
                                 Store(parseCall.data.payload.elems[i], parseCall.r)]

-----------------------------------------------------------------------------
(* Claims about findAllStores, under SpecLocator *)

\* the lists the lookups returned, in the order findAllStores pushes them
Concatenated == lookups["bestbuy"].stores \o lookups["target"].stores

\* how often store s occurs in list
Occurrences(list, s) == Cardinality({i \in 1..Len(list) : list[i] = s})

\* the distance a store is ordered by
OrderedAs(s) == IF s.distance = Undefined THEN 0 ELSE s.distance

\* C12: the list findAllStores returns is a permutation of the concatenation of the
\* per-retailer results and is non-decreasing in distance, a missing distance being
\* ordered as 0.
C12_PermutationSortedByDistance ==
    discovery.pc = "returned" =>
        LET all == discovery.allStores
        IN /\ Len(all) = Len(Concatenated)
           /\ \A i \in 1..Len(all) : Occurrences(all, all[i]) = Occurrences(Concatenated, all[i])
           /\ \A i \in 1..(Len(all) - 1) : OrderedAs(all[i]) <= OrderedAs(all[i + 1])

\* Best Buy's stores are farther than one of Target's without a distance
C12_Witness ==
    /\ discovery.pc = "returned"
    /\ \E i \in 1..Len(Concatenated) : \E j \in (i + 1)..Len(Concatenated) :
          /\ Concatenated[i].distance = 2
          /\ Concatenated[j].distance = Undefined
    /\ discovery.allStores # Concatenated

-----------------------------------------------------------------------------
(* Claims about checkStoreInventory of both monitors, under SpecInventory *)

\* the skus among the products pushed by the searches
MergedSkus == {inventory.merged[i].sku : i \in 1..Len(inventory.merged)}

\* where the first product with the sku stands among the products pushed
FirstWith(sku) ==
    CHOOSE i \in 1..Len(inventory.merged) :
        /\ inventory.merged[i].sku = sku
        /\ \A j \in 1..Len(inventory.merged) : inventory.merged[j].sku = sku => i <= j

\* C13: the deduplicated product list of checkStoreInventory has exactly one entry
\* per distinct sku among the products pushed, that entry is the first occurrence of
\* the sku, and the entries keep their relative order.
C13_FirstOccurrencePerSku ==
    inventory.pc = "returned" =>
        LET products == inventory.products
        IN /\ \A sku \in MergedSkus :
                 Cardinality({k \in 1..Len(products) : products[k].sku = sku}) = 1
           /\ \A k \in 1..Len(products) :
                 /\ products[k].sku \in MergedSkus
                 /\ products[k] = inventory.merged[FirstWith(products[k].sku)]
           /\ \A k \in 1..Len(products) : \A l \in (k + 1)..Len(products) :
                 FirstWith(products[k].sku) < FirstWith(products[l].sku)

\* a later product with the sku of an earlier one, but another availability, is gone
C13_Witness ==
    /\ inventory.pc = "returned"
    /\ Len(inventory.merged) = 2
    /\ inventory.merged[1].sku = inventory.merged[2].sku
    /\ inventory.merged[1].availability # inventory.merged[2].availability
    /\ inventory.products = <<inventory.merged[1]>>

\* C14: for both monitors hasStock is true if and only if at least one surviving
\* product has an availability that contains, whatever the case of its letters,
\* "available", "in stock" or "pickup".
C14_HasStockIffAvailabilityWord ==
    inventory.pc = "returned" =>
        (inventory.hasStock <=>
            \E k \in 1..Len(inventory.products) :
                Includes(inventory.products[k].availability) # {})

\* the fulfillment conditions of a product of an API response, in the order of their
\* priority: pickup in the store, limited stock for pickup, ship to store, shipping
Holds(r, product) ==
    IF r = "target"
    THEN <<product.store_pick_up = "AVAILABLE", product.store_pick_up = "LIMITED_STOCK",
           product.ship_to_store = "AVAILABLE", product.shipping = "AVAILABLE">>
    ELSE <<product.inStore = "Available", product.inStore = "LimitedStock",
           FALSE, product.online = "Available">>

\* the string of each condition
Strings(r) ==
    IF r = "target"
    THEN <<"Available for store pickup", "Limited stock - store pickup",
           "Available - ship to store", "Available for shipping">>
    ELSE <<"Available for pickup today", "Limited stock available",
           "Available - ship to store", "Available online">>

\* the product was classified by determineAvailability
Classified(r, product) == r = "target" \/ product.source = "api"

\* C15: the classification goes through the conditions in the fixed order pickup
\* available, limited pickup stock, ship to store, standard shipping; the first one
\* that holds alone determines the string, and "Out of stock" it is when none holds.
C15_FirstConditionDetermines ==
    inventory.pc \in {"merged", "returned"} =>
        \A i \in 1..Len(inventory.found) :
            Classified(inventory.retailer, inventory.found[i]) =>
                LET holds == Holds(inventory.retailer, inventory.found[i])
                    held == {c \in 1..4 : holds[c]}
                    availability == inventory.merged[i].availability
                IN IF held = {} THEN availability = "Out of stock"
                   ELSE \E c \in held : /\ \A b \in held : c <= b
                                        /\ availability = Strings(inventory.retailer)[c]

\* a product with limited stock for pickup that can also be shipped, and one that can
\* be shipped to the store and to the customer
C15_Witness ==
    /\ inventory.pc = "merged"
    /\ inventory.retailer = "target"
    /\ Len(inventory.found) = 2
    /\ inventory.found[1].store_pick_up = "LIMITED_STOCK"
    /\ inventory.found[1].shipping = "AVAILABLE"
    /\ inventory.merged[1].availability = "Limited stock - store pickup"
    /\ inventory.found[2].store_pick_up = "UNAVAILABLE"
    /\ inventory.found[2].ship_to_store = "AVAILABLE"
    /\ inventory.found[2].shipping = "AVAILABLE"
    /\ inventory.merged[2].availability = "Available - ship to store"

\* the products pushed that survive the deduplication
Survives(i) == \A j \in 1..(i - 1) : inventory.merged[j].sku # inventory.merged[i].sku

\* C16: a product whose store pick-up availability status is "AVAILABLE" is
\* classified "Available for pickup today", and the StockResult that contains it has
\* hasStock = true.
C16_PickupAvailableToday ==
    inventory.pc \in {"merged", "returned"} =>
        \A i \in 1..Len(inventory.found) :
            (inventory.retailer = "target" /\ inventory.found[i].store_pick_up = "AVAILABLE")
                => /\ inventory.merged[i].availability = "Available for pickup today"
                   /\ (inventory.pc = "returned" /\ Survives(i)) => inventory.hasStock

\* C16, as the monitors have it: a Target product whose store pick-up availability
\* status is "AVAILABLE" is classified "Available for store pickup" and the
\* StockResult that contains it has hasStock = true; "Available for pickup today" is
\* the class of a Best Buy product whose status in the store is "Available".
C16_PickupAvailablePerRetailer ==
    inventory.pc \in {"merged", "returned"} =>
        \A i \in 1..Len(inventory.found) :
            /\ (inventory.retailer = "target" /\ inventory.found[i].store_pick_up = "AVAILABLE")
                 => /\ inventory.merged[i].availability = "Available for store pickup"
                    /\ (inventory.pc = "returned" /\ Survives(i)) => inventory.hasStock
            /\ (inventory.retailer = "bestbuy" /\ inventory.found[i].inStore = "Available")
                 => inventory.merged[i].availability = "Available for pickup today"

\* the second product at a Target store can be picked up, after one that is out of stock
C16_Witness ==
    /\ inventory.pc = "returned"
    /\ inventory.retailer = "target"
    /\ Len(inventory.products) = 2
    /\ inventory.found[2].store_pick_up = "AVAILABLE"
    /\ inventory.products[1].availability = "Out of stock"
    /\ inventory.products[2].availability = "Available for store pickup"
    /\ inventory.hasStock

-----------------------------------------------------------------------------
(* Claims about checkMultipleStores of both monitors, under SpecBatch *)

\* what the log of a call over n stores is when each store but the last is followed
\* by one wait
CheckThenDelay(n) ==
    [e \in 1..(IF n = 0 THEN 0 ELSE 2 * n - 1) |->
        IF e % 2 = 1 THEN <<"check", (e + 1) \div 2>> ELSE <<"delay", e \div 2>>]

\* the check of a store begins in this step
CheckBegins == batch'.pc = "check" /\ (batch.pc # "check" \/ batch'.i # batch.i)

-----------------------------------------------------------------------------
(* Claims about sendStockAlert, under SpecNotifier *)

\* the results of the batch for the store with the key
ResultsFor(key) == {j \in 1..Len(alert.batch) : storeKey(alert.batch[j].store) = key}

\* the results among them that count as successful checks
SuccessfulFor(key) ==
    {j \in ResultsFor(key) : alert.batch[j].hasStock \/ alert.batch[j].products > 0}

\* updateStoreTracking has gone through the batch
Tracked == alert.pc \in {"recording", "done"}

\* C19: after sendStockAlert(batch), for every store key totalChecks has grown by the
\* number of results of the batch with that key and successfulChecks by the number
\* of those with hasStock true or a non-empty product list, the result that creates
\* the StoreInfo entry included.
C19_ChecksCounted ==
    Tracked =>
        \A key \in StoreKeys :
            /\ storeInfos[key].totalChecks
                 = alert.before[key].totalChecks + Cardinality(ResultsFor(key))
            /\ storeInfos[key].successfulChecks
                 = alert.before[key].successfulChecks + Cardinality(SuccessfulFor(key))

\* result j of the batch comes before result l, or they are one result and product k
\* of it comes before product m
Before(f, g) == f.result < g.result \/ (f.result = g.result /\ f.product < g.product)

\* C20: sendStockAlert records exactly one ProductFind per product of each result of
\* the batch whose hasStock is true, in the order of the batch, and none for a result
\* whose hasStock is false, not even when its product list is non-empty.
C20_OneFindPerStockProduct ==
    alert.pc = "done" =>
        LET recorded == alert.recorded
        IN /\ \A j \in 1..Len(alert.batch) : \A k \in 1..alert.batch[j].products :
                 Cardinality({a \in 1..Len(recorded) :
                                 recorded[a] = [store |-> storeKey(alert.batch[j].store),
                                                result |-> j, product |-> k]})
                   = (IF alert.batch[j].hasStock THEN 1 ELSE 0)
           /\ \A a \in 1..Len(recorded) :
                 /\ recorded[a].result \in 1..Len(alert.batch)
                 /\ alert.batch[recorded[a].result].hasStock
                 /\ recorded[a].product \in 1..alert.batch[recorded[a].result].products
           /\ \A a \in 1..Len(recorded) : \A b \in (a + 1)..Len(recorded) :
                 Before(recorded[a], recorded[b])

\* a result without stock but with two products, then a result with stock and two
\* products: the finds are the two products of the second
C20_Witness ==
    /\ alert.pc = "done"
    /\ Len(alert.batch) = 2
    /\ ~alert.batch[1].hasStock /\ alert.batch[1].products = 2
    /\ alert.batch[2].hasStock /\ alert.batch[2].products = 2
    /\ Len(alert.recorded) = 2
    /\ alert.recorded[1].result = 2 /\ alert.recorded[1].product = 1
    /\ alert.recorded[2].result = 2 /\ alert.recorded[2].product = 2

-----------------------------------------------------------------------------
(* Claims about the FileLogger, under SpecLogger and SpecSummary *)

RECURSIVE RecordedUpTo(_)
\* the finds of the daily lists of the days 1..d, one day after the other
RecordedUpTo(d) == IF d = 0 THEN <<>> ELSE RecordedUpTo(d - 1) \o finds.daily[d]

\* C21: after any sequence of recordProductFind calls the rolling list holds at most
\* 100 entries, which are the most recently recorded finds, newest first; the daily
\* list of a day holds the finds recorded on that day, in the order they were
\* recorded; every call has added its find to both lists.
C21_RollingAndDaily ==
    LET recorded == RecordedUpTo(MaxMidnights + 1)
    IN /\ Len(finds.rolling) = (IF finds.count <= RollingCap THEN finds.count ELSE RollingCap)
       /\ Len(recorded) = finds.count
       /\ \A i \in 1..Len(recorded) : recorded[i].n = i
       /\ \A i \in 1..Len(finds.rolling) : finds.rolling[i] = recorded[finds.count - i + 1]
       /\ \A day \in Days : \A i \in 1..Len(finds.daily[day]) : finds.daily[day][i].day = day

\* more than 100 finds recorded over two days: the rolling list holds 100 of them
\* and has dropped the oldest
C21_Witness ==
    /\ finds.count > RollingCap
    /\ Len(finds.rolling) = RollingCap
    /\ finds.rolling[RollingCap].n = finds.count - RollingCap + 1
    /\ finds.daily[1] # <<>> /\ finds.daily[2] # <<>>

-----------------------------------------------------------------------------
(* Claims about the status record, under Spec *)

\* C22: start(), stop() and the end of every cycle, through the catch block or not,
\* rewrite the status record with the isRunning of the orchestrator at that moment;
\* whenever a status record has been written its isRunning is the orchestrator's.
C22_StatusFollowsIsRunning ==
    /\ [](statusFile.written => statusFile.isRunning = isRunning)
    /\ [][(\/ isRunning' # isRunning
           \/ BagCardinality(cycles') < BagCardinality(cycles))
             => /\ statusFile' = [written |-> TRUE, isRunning |-> isRunning']
                /\ fx'.statusWritten]_vars

\* a cycle that was in flight when stop() was called ends through its catch block:
\* the record it writes says the monitor is stopped
C22_Witness ==
    /\ fx.op = "performCheck" /\ fx.caught /\ fx.statusWritten
    /\ afterStop /\ ~isRunning
    /\ statusFile = [written |-> TRUE, isRunning |-> FALSE]

-----------------------------------------------------------------------------
(* Claims about initializeSession, under SpecSession *)

\* C24: initializeSession never throws, whether the homepage request succeeds, is
\* answered with a 4xx, is answered with a 500 on every attempt or fails with a
\* network error; for a domain it does not recognise it issues no request.
C24_InitializeSessionNeverThrows ==
    /\ session.pc # "rejected"
    /\ session.pc = "get" => Recognised(session.domain)
    /\ ~Recognised(session.domain) => session.requests = 0 /\ session.log = <<>>

\* every attempt the configuration allows was answered with a 500 or failed on the
\* network, at least one of each, and the call has resolved
C24_Witness ==
    /\ session.pc = "resolved"
    /\ session.domain = "target.com"
    /\ session.requests = maxAttempts
    /\ Len(session.log) = maxAttempts
    /\ \A i \in 1..Len(session.log) :
          session.log[i] \in {NetworkError, [kind |-> "response", status |-> 500]}
    /\ \E i \in 1..Len(session.log) : session.log[i] = NetworkError
    /\ \E i \in 1..Len(session.log) : session.log[i].status = 500

-----------------------------------------------------------------------------
(* Claims about the retries and the session state of get(), under SpecHttp *)

\* C25: after a failed attempt k below the maximum get() waits 2^k seconds plus a
\* jitter of less than a second before it sends attempt k+1; after the last failed
\* attempt it waits no more and throws the error of that attempt.
C25_BackoffBetweenAttempts ==
    [][\A c \in Callers :
          LET k == calls[c].attempt
              before == calls[c].pc
              after == calls'[c].pc
          IN /\ (before = "inflight" /\ after = "backoff")
                  => /\ k < maxAttempts
                     /\ calls'[c].attempt = k
                     /\ calls'[c].timer >= Pow2(k) * BackoffBase
                     /\ calls'[c].timer < Pow2(k) * BackoffBase + BackoffBase
             /\ (before = "backoff" /\ after = "backoff")
                  => calls'[c].timer \in {calls[c].timer, calls[c].timer - 1}
             /\ before = "backoff"
                  => /\ after \in {"backoff", "inflight"}
                     /\ after = "inflight" => calls[c].timer = 0 /\ calls'[c].attempt = k + 1
             /\ (before = "inflight" /\ k >= maxAttempts) => after \in {"inflight", "returned", "thrown"}
             /\ (before = "inflight" /\ after = "thrown")
                  => /\ k = maxAttempts
                     /\ calls'[c].lastError \in Outcomes
                     /\ ~(calls'[c].lastError.kind = "response"
                            /\ validateStatus(calls'[c].lastError.status))]_vars

\* the second attempt of a call has failed and the call waits four seconds and a
\* jitter for its third
C25_Witness ==
    \E c \in Callers :
        /\ calls[c].pc = "backoff"
        /\ calls[c].attempt = 2
        /\ calls[c].timer = Pow2(2) * BackoffBase + 1

\* C26: get() records the new last-request time when the request succeeds: when a
\* call returns, the recorded time is no earlier than the moment the request of the
\* response it returns was sent (stated for a call that is the only one made so far,
\* so that the last send to its host is the send of that request).
C26_RecordedWhenRequestSucceeds ==
    [][\A c \in Callers :
          (/\ calls[c].pc = "inflight" /\ calls'[c].pc = "returned"
           /\ \A other \in Callers \ {c} : calls[other].pc = "idle")
             => sinceLastRequest' <= sinceSend'[calls[c].host]]_vars

\* the last-request time get() consults before a request to host: the one field
\* lastRequestTime, whatever the host
lastRequestTime(host) == sinceLastRequest

\* C27: a get() to one domain leaves the last-request time of every other domain
\* that has session state unchanged.
C27_OtherDomainsUntouched ==
    [][\A c \in Callers :
          (calls[c].pc # "inflight" /\ calls'[c].pc = "inflight" /\ calls'[c].attempt = 1)
             => \A host \in clients \ {calls'[c].host} :
                   lastRequestTime(host)' = lastRequestTime(host)]_vars

-----------------------------------------------------------------------------
(* Claims about the Store of a raw record, under SpecStore *)

\* the raw record carries none of the keys the retailer's mapping reads for hours
NoHoursKey(retailer, storeData) ==
    IF retailer = "bestbuy" THEN storeData.hours = "" /\ storeData.storeHours = ""
    ELSE storeData.hours = ""

\* the raw record carries none of the keys read for the distance
NoDistanceKey(retailer, storeData) ==
    IF retailer = "bestbuy"
    THEN storeData.distance = Undefined /\ storeData.distanceInMiles = Undefined
    ELSE storeData.distance_in_miles = Undefined /\ storeData.distance = Undefined

-----------------------------------------------------------------------------
(* Claims about the lookups of a cycle, under Spec *)

\* C29: findAllStores performs store lookups only for the retailers that are enabled
\* in the configuration; a disabled retailer receives no lookup request.
C29_LookupsOnlyForEnabled ==
    \A rec \in Running : \A r \in Retailers :
        (rec.pc = "discover" /\ rec[r] = "sent") => enabled[r]

-----------------------------------------------------------------------------
(* Claims about BestBuyMonitor.searchProducts, under SpecSearch *)

\* C30: for every term where the structured candidates yield no matching product,
\* whatever the reason (a response accepted without matches, responses rejected, or
\* every candidate failing after its retries), the fallback scrape has been attempted
\* when searchProducts returns.
C30_FallbackAlwaysAttempted ==
    (search.pc = "returned" /\ search.api = "none") => search.scraped

\* C34: searchProducts extracts products only from a candidate response that was
\* accepted (status 200 with a body): the products it has taken from the structured
\* candidates never come from a response with another status.
C34_ProductsOnlyFromAccepted ==
    search.api = "some" => search.response.accepted

-----------------------------------------------------------------------------
(* Claims about the cycles and the timers of the orchestrator, under Spec *)

\* C35: at most one check cycle is in progress at any time: neither a timer tick
\* during a cycle nor a start() after a stop() during a cycle makes two executions
\* of performCheck overlap.
C35_AtMostOneCycle ==
    BagCardinality(cycles) <= 1

\* C36: for every interleaving of start(), stop() and the end of cycles at most one
\* periodic timer exists, it is the one intervalId refers to, and a timer exists
\* only while isRunning is true.
C36_OneTimerWhileRunning ==
    /\ Cardinality(timers) <= 1
    /\ timers # {} => timers = {intervalId} /\ isRunning

-----------------------------------------------------------------------------
(* Claims about the statistics of the stores, under SpecNotifier *)

\* C37: in every state of the Notifier each StoreInfo has
\* 0 <= successfulChecks <= totalChecks and totalChecks >= 1; neither counter ever
\* decreases, and an entry, once created, is never removed.
C37_CountersBoundedAndMonotone ==
    /\ [](\A key \in StoreKeys :
             storeInfos[key].tracked
                => /\ 0 <= storeInfos[key].successfulChecks
                   /\ storeInfos[key].successfulChecks <= storeInfos[key].totalChecks
                   /\ storeInfos[key].totalChecks >= 1)
    /\ [][\A key \in StoreKeys :
             storeInfos[key].tracked
                => /\ storeInfos'[key].tracked
                   /\ storeInfos'[key].totalChecks >= storeInfos[key].totalChecks
                   /\ storeInfos'[key].successfulChecks >= storeInfos[key].successfulChecks]_vars

\* a store checked twice, once with success, next to a store checked once
C37_Witness ==
    /\ alert.pc = "done"
    /\ storeInfos[<<"target", 1>>].tracked
    /\ storeInfos[<<"target", 1>>].totalChecks = 2
    /\ storeInfos[<<"target", 1>>].successfulChecks = 1
    /\ storeInfos[<<"bestbuy", 1>>].totalChecks = 1

\* C38: when updateStoreTracking processes a result for a store key that already
\* has a StoreInfo, the descriptive fields of that entry stay as recorded at first
\* sighting, only its counters change, and the entries of all other keys are
\* unchanged.
C38_OnlyCountersChange ==
    [][(alert.pc = "tracking" /\ Len(alert'.batch) = Len(alert.batch) + 1)
         => LET result == alert'.batch[Len(alert'.batch)]
                key == storeKey(result.store)
            IN /\ \A other \in StoreKeys \ {key} : storeInfos'[other] = storeInfos[other]
               /\ storeInfos[key].tracked
                    => /\ storeInfos'[key].tracked
                       /\ storeInfos'[key].details = storeInfos[key].details
                       /\ storeInfos'[key].totalChecks = storeInfos[key].totalChecks + 1
                       /\ storeInfos'[key].successfulChecks
                            \in {storeInfos[key].successfulChecks,
                                 storeInfos[key].successfulChecks + 1}]_vars

\* a store first seen with one set of details is checked again by a result that
\* carries others: the entry keeps the first
C38_Witness ==
    /\ alert.pc = "tracking"
    /\ Len(alert.batch) >= 1
    /\ LET result == alert.batch[Len(alert.batch)]
           key == storeKey(result.store)
       IN /\ alert.before[key].tracked
          /\ alert.before[key].details = 1
          /\ result.store.details = 2
          /\ storeInfos[key].details = 1
          /\ storeInfos[key].totalChecks = alert.before[key].totalChecks + 1

-----------------------------------------------------------------------------
(* Claims about products without a sku, under SpecInventory *)

\* C39: in the deduplication of checkStoreInventory the products without a sku are
\* treated as sharing one sku: at most one of them survives, the first in input
\* order, and a product without a sku never removes a product that has one.
C39_SkulessShareOneSku ==
    inventory.pc = "returned" =>
        LET merged == inventory.merged
            products == inventory.products
            skuless(list) == {i \in 1..Len(list) : list[i].sku = Undefined}
        IN /\ Cardinality(skuless(products)) <= 1
           /\ skuless(merged) # {}
                => \E j \in skuless(products) :
                      \E i \in skuless(merged) :
                          /\ \A h \in skuless(merged) : i <= h
                          /\ products[j] = merged[i]
           /\ skuless(merged) = {} => skuless(products) = {}
           /\ \A i \in 1..Len(merged) :
                 merged[i].sku # Undefined
                    => \E j \in 1..Len(products) : products[j].sku = merged[i].sku

\* two different products without a sku: the first of the two survives alone
C39_Witness ==
    /\ inventory.pc = "returned"
    /\ Len(inventory.merged) = 2
    /\ inventory.merged[1].sku = Undefined /\ inventory.merged[2].sku = Undefined
    /\ inventory.merged[1] # inventory.merged[2]
    /\ inventory.products = <<inventory.merged[1]>>

-----------------------------------------------------------------------------
(* Claims about the retailers a cycle checks, under SpecCheck *)

\* C32: in a check cycle only the stores of enabled retailers are checked and
\* aggregated: no monitor is invoked for a retailer whose enabled flag is false, and
\* no StockResult of a disabled retailer is among the results of the cycle or among
\* those handed to sendStockAlert, from which the statistics and the finds are made.
C32_OnlyEnabledChecked ==
    /\ check.pc \in Retailers => enabled[check.pc]
    /\ \A i \in 1..Len(check.allResults) : enabled[check.allResults[i]]
    /\ \A i \in 1..Len(check.alerted) : enabled[check.alerted[i]]
    /\ check.sent => check.alerted = check.allResults

\* with Best Buy disabled and Target enabled a cycle over two ZIP codes has found
\* stores of both and has handed only the results of Target's to sendStockAlert
C32_Witness ==
    /\ ~enabled["bestbuy"] /\ enabled["target"]
    /\ check.pc = "end" /\ check.sent
    /\ check.seen = Retailers
    /\ check.alerted = <<"target", "target">>

-----------------------------------------------------------------------------
(* Claims about the requests of the monitors, under SpecWire *)

\* C31: any two consecutive outbound requests to the same retailer domain are at
\* least the configured minimum spacing apart, whichever component issues them: also
\* the Best Buy monitor's scrape fallback after its client's request, and the Target
\* monitor's product searches for successive search terms.
C31_SpacedAcrossComponents ==
    wire.gap # Undefined => wire.gap >= DefaultDelay

-----------------------------------------------------------------------------
(* Claims about the Scout, under SpecScout *)

\* C33: after stopMonitoring(), on SIGINT or on a reload of the SKU file, every
\* polling timer startMonitoring created has been cancelled, whatever the SKU file
\* holds, and no checkStock call is initiated until monitoring is started again.
C33_StoppedMeansNoPolling ==
    ~scout.isRunning => scout.timers = {} /\ scout.last # "checkStock"

=============================================================================
